---------------------------- MODULE Spec2Model ----------------------------
(***************************************************************************)
(* A model of mkssi-fast-export: the RCS revision-number algebra, the line *)
(* buffer and patch engines, the revision walker, the changeset builder,   *)
(* the commit merger and the export driver.                                *)
(*                                                                         *)
(* The module holds several specifications, one per component, over        *)
(* disjoint groups of variables; a specification leaves the variables of   *)
(* the other groups at their idle values.                                  *)
(***************************************************************************)
EXTENDS Integers, Sequences, FiniteSets, TLC

VARIABLES
    \* --- revision-number algebra (rcs-number.c)
    na, nb,         \* two struct rcs_number operands (sequences of components)
    nres,           \* results of the last comparison of na with nb
    \* --- line buffer and text patch engine (lines.c, rcs-text.c)
    lpc,            \* position of the patch round trip
    lorig,          \* the line list before the first patch
    ldata,          \* the current line list (struct rcs_line chain)
    lcmd,           \* the <<N, C>> of the insert/delete commands
    \* --- '@@' unescaping (rcs-keyword.c, rcs-binary.c)
    apc,            \* how many unescape passes have run
    akind,          \* "text": a line of an rcs_line; "binary": a binary_data
    ain,            \* the bytes before the first pass
    aprev,          \* the bytes before the last pass
    abuf,           \* the bytes now
    \* --- revision walkers (rcs-text.c, rcs-binary.c)
    wpc,            \* "start" before, "done" after the file was walked
    wfile,          \* the struct rcs_file being walked
    wcalls,         \* the callback invocations so far: <<[rev, other]>>
    \* --- export driver (export.c, changeset.c, merge.c, project.c)
    epc,            \* position of export(): "blobs", "changes", "done"
    rcs_files,      \* the struct rcs_file of every file, dummy files too
    pjs,            \* the project revisions in export order, the tip last
    pjrev,          \* how many project revisions have been exported
    blob_mark_counter,
    blob_marks,     \* the marks of the blob records written so far
    last_changes,   \* what changeset_build yielded in the last step
    last_commits,   \* what merge_changeset_into_commits yielded from it
    out,            \* the R, M and D lines written so far, in order
    \* --- one routine run on its own (merge.c, project.c, changeset.c, ...)
    upc,            \* "call" before the routine runs, "return" after
    uin,            \* the arguments and the data they point to
    uout            \* what the routine returned or left behind

numVars == <<na, nb, nres>>
lineVars == <<lpc, lorig, ldata, lcmd>>
atsVars == <<apc, akind, ain, aprev, abuf>>
walkVars == <<wpc, wfile, wcalls>>
exportVars ==
    <<epc, rcs_files, pjs, pjrev, blob_mark_counter, blob_marks,
      last_changes, last_commits, out>>
unitVars == <<upc, uin, uout>>
vars ==
    <<na, nb, nres, lpc, lorig, ldata, lcmd, apc, akind, ain, aprev, abuf,
      wpc, wfile, wcalls, epc, rcs_files, pjs, pjrev, blob_mark_counter,
      blob_marks, last_changes, last_commits, out, upc, uin, uout>>

\* the variables a specification leaves alone
notNum == <<lineVars, atsVars, walkVars, exportVars, unitVars>>
notLine == <<numVars, atsVars, walkVars, exportVars, unitVars>>
notAts == <<numVars, lineVars, walkVars, exportVars, unitVars>>
notWalk == <<numVars, lineVars, atsVars, exportVars, unitVars>>
notExport == <<numVars, lineVars, atsVars, walkVars, unitVars>>
notUnit == <<numVars, lineVars, atsVars, walkVars, exportVars>>

NoRes == [cmp |-> 2, rcmp |-> 2, eq |-> FALSE, pm |-> FALSE]

NumIdle == na = <<>> /\ nb = <<>> /\ nres = NoRes

LineIdle == lpc = "idle" /\ lorig = <<>> /\ ldata = <<>> /\ lcmd = <<0, 0>>

AtsIdle ==
    apc = "idle" /\ akind = "none" /\ ain = <<>> /\ aprev = <<>> /\ abuf = <<>>

WalkIdle == wpc = "idle" /\ wfile = <<>> /\ wcalls = <<>>

ExportIdle ==
    /\ epc = "idle" /\ rcs_files = <<>> /\ pjs = <<>> /\ pjrev = 0
    /\ blob_mark_counter = 0 /\ blob_marks = {}
    /\ last_changes = <<>> /\ last_commits = <<>> /\ out = <<>>

UnitIdle == upc = "idle" /\ uin = <<>> /\ uout = <<>>

NotNumIdle == LineIdle /\ AtsIdle /\ WalkIdle /\ ExportIdle /\ UnitIdle
NotLineIdle == NumIdle /\ AtsIdle /\ WalkIdle /\ ExportIdle /\ UnitIdle
NotAtsIdle == NumIdle /\ LineIdle /\ WalkIdle /\ ExportIdle /\ UnitIdle
NotWalkIdle == NumIdle /\ LineIdle /\ AtsIdle /\ ExportIdle /\ UnitIdle
NotExportIdle == NumIdle /\ LineIdle /\ AtsIdle /\ WalkIdle /\ UnitIdle
NotUnitIdle == NumIdle /\ LineIdle /\ AtsIdle /\ WalkIdle /\ ExportIdle

(***************************************************************************)
(* Generic helpers                                                         *)
(***************************************************************************)
Min(a, b) == IF a < b THEN a ELSE b

Max(a, b) == IF a > b THEN a ELSE b

\* all sequences over S of length lo..hi
SeqsOf(S, lo, hi) == UNION {[1..k -> S] : k \in lo..hi}

(***************************************************************************)
(* Revision-number algebra: src/rcs-number.c                               *)
(* A struct rcs_number {c, n[]} is the sequence n[0..c-1]; c is its Len.   *)
(***************************************************************************)

\* rcs_number_equal: memcmp over c and the first n1->c components
rcs_number_equal(n1, n2) ==
    /\ Len(n1) = Len(n2)
    /\ \A i \in 1..Len(n1) : n1[i] = n2[i]

\* rcs_number_partial_match: num starts with spec
rcs_number_partial_match(num, spec) ==
    /\ ~(Len(num) < Len(spec))
    /\ \A i \in 1..Len(spec) : num[i] = spec[i]

\* the for loop of rcs_number_compare from index i (1-based) up to n
RECURSIVE compare_loop(_, _, _, _)
compare_loop(a, b, i, n) ==
    IF i > n THEN 0
    ELSE IF a[i] < b[i] THEN -1
    ELSE IF a[i] > b[i] THEN 1
    ELSE compare_loop(a, b, i + 1, n)

\* mutant: the length tie-break of rcs_number_compare left out
rcs_number_compare_nolen(a, b) ==
    compare_loop(a, b, 1, Min(Len(a), Len(b)))

\* rcs_number_compare: component-wise, then the shorter number first
rcs_number_compare(a, b) ==
    LET r == compare_loop(a, b, 1, Min(Len(a), Len(b)))
    IN  IF r # 0 THEN r
        ELSE IF Len(a) < Len(b) THEN -1
        ELSE IF Len(a) > Len(b) THEN 1
        ELSE 0

\* rcs_number_is_trunk
rcs_number_is_trunk(number) == Len(number) = 2

\* rcs_number_increment: n[c-1]++
rcs_number_increment(number) ==
    [number EXCEPT ![Len(number)] = @ + 1]

\* the number rcs_number_decrement leaves in *number (also when it returns NULL)
rcs_number_decrement(number) ==
    LET d == [number EXCEPT ![Len(number)] = @ - 1]
    IN  IF d[Len(d)] # 0 THEN d
        ELSE IF Len(d) >= 4 THEN SubSeq(d, 1, Len(d) - 2)
        ELSE d

\* whether rcs_number_decrement returns NULL ("nothing is previous")
rcs_number_decrement_null(number) ==
    /\ number[Len(number)] - 1 = 0
    /\ Len(number) < 4

(***************************************************************************)
(* Specification SpecNumber: two operands drawn from a bounded universe,   *)
(* compared, incremented and decremented.                                  *)
(***************************************************************************)
MaxComp == 2

NumLengths == {1, 2, 3, 4}

NumUniverse == UNION {[1..k -> 1..MaxComp] : k \in NumLengths}

NumInit ==
    /\ na \in NumUniverse
    /\ nb \in NumUniverse
    /\ nres = NoRes
    /\ NotNumIdle

\* apply equal, partial_match and compare (both ways) to the operands
NumCompare ==
    /\ nres = NoRes
    /\ nres' = [cmp |-> rcs_number_compare(na, nb),
                rcmp |-> rcs_number_compare(nb, na),
                eq |-> rcs_number_equal(na, nb),
                pm |-> rcs_number_partial_match(nb, na)]
    /\ UNCHANGED <<na, nb>>
    /\ UNCHANGED notNum

NumIncrement ==
    /\ na[Len(na)] < MaxComp
    /\ na' = rcs_number_increment(na)
    /\ nres' = NoRes
    /\ UNCHANGED nb
    /\ UNCHANGED notNum

NumDecrement ==
    /\ ~rcs_number_decrement_null(na)
    /\ na' = rcs_number_decrement(na)
    /\ nres' = NoRes
    /\ UNCHANGED nb
    /\ UNCHANGED notNum

NumNext == NumCompare \/ NumIncrement \/ NumDecrement

SpecNumber == NumInit /\ [][NumNext]_vars

\* C8: rcs_number_compare is a total order, lexicographic on the components
\* with a proper prefix before its extensions: a trunk revision that is
\* component-wise smaller compares < 0; a branch root (a proper prefix)
\* partially matches and compares < 0 against every revision of its branch;
\* compare is antisymmetric and transitive, and is 0 exactly when
\* rcs_number_equal holds.
C8_CompareOrder ==
    nres # NoRes =>
        /\ nres.cmp \in {-1, 0, 1}
        /\ nres.rcmp = 0 - nres.cmp
        /\ (nres.cmp = 0) <=> nres.eq
        /\ nres.eq <=> (na = nb)
        /\ (/\ rcs_number_is_trunk(na) /\ rcs_number_is_trunk(nb)
            /\ (na[1] < nb[1] \/ (na[1] = nb[1] /\ na[2] < nb[2])))
              => nres.cmp < 0
        /\ (Len(na) < Len(nb) /\ SubSeq(nb, 1, Len(na)) = na)
              => (nres.pm /\ nres.cmp < 0)
        /\ \A c \in NumUniverse :
              (nres.cmp <= 0 /\ rcs_number_compare(nb, c) <= 0)
                  => rcs_number_compare(na, c) <= 0

\* witness of C8: a branch root compared with a revision on its branch
C8_Witness ==
    /\ nres # NoRes
    /\ na = <<1, 2>>
    /\ nb = <<1, 2, 1, 2>>
    /\ nres.cmp = -1
    /\ nres.pm

(***************************************************************************)
(* Line buffer: src/lines.c.  A struct rcs_line chain is a sequence of     *)
(* records [lineno, line, no_newline]; the line's bytes are the record     *)
(* line = [c, n, k]: c is the first character class ("a" or "d": a command *)
(* line with number n and count k, "t": any other text (n names it),       *)
(* "b": a blank line), and NullLine stands for line == NULL (a tombstone). *)
(***************************************************************************)
NullLine == [c |-> "null", n |-> 0, k |-> 0]

Text(i) == [c |-> "t", n |-> i, k |-> 0]

Cmd(ch, ln, ct) == [c |-> ch, n |-> ln, k |-> ct]

\* a patch (or data) line as string_to_lines makes it
PLine(content, nonl) == [lineno |-> 0, line |-> content, no_newline |-> nonl]

\* the first index whose lineno >= lineno (the search loops of
\* lines_insert and lines_delete), 0 when the loop runs off the list
RECURSIVE find_line(_, _, _)
find_line(lines, lineno, i) ==
    IF i > Len(lines) THEN 0
    ELSE IF lines[i].lineno >= lineno THEN i
    ELSE find_line(lines, lineno, i + 1)

\* the sequence with its entries renumbered and tombstones dropped
RECURSIVE reset_from(_, _, _)
reset_from(lines, i, lineno) ==
    IF i > Len(lines) THEN <<>>
    ELSE IF lines[i].line # NullLine
         THEN <<[lines[i] EXCEPT !.lineno = lineno + 1]>>
                  \o reset_from(lines, i + 1, lineno + 1)
         ELSE reset_from(lines, i + 1, lineno)

\* lines_reset
lines_reset(lines) == reset_from(lines, 1, 0)

\* the lines a successful lines_insert adds at list position pos
added_lines(lines, insert, pos, count) ==
    [i \in 1..count |->
        [lineno |-> 0,
         line |-> insert[i].line,
         no_newline |-> IF pos = Len(lines) /\ i = Len(insert)
                        THEN insert[i].no_newline ELSE FALSE]]

\* mutant: the new lines are linked in before the anchor line, not after it
lines_insert_before(lines, insert, lineno, count) ==
    LET idx == find_line(lines, lineno, 1)
        pos == IF lineno # 0 THEN idx - 1 ELSE 0
    IN  IF lineno # 0 /\ (idx = 0 \/ lines[idx].lineno # lineno)
        THEN [ok |-> FALSE, lines |-> lines]
        ELSE IF Len(insert) < count
        THEN [ok |-> FALSE, lines |-> lines]
        ELSE [ok |-> TRUE,
              lines |-> SubSeq(lines, 1, pos)
                          \o added_lines(lines, insert, pos, count)
                          \o SubSeq(lines, pos + 1, Len(lines))]

\* lines_insert: count lines of insert after the line numbered lineno
\* (lineno 0: at the head); [ok |-> FALSE] when it returns false
lines_insert(lines, insert, lineno, count) ==
    LET idx == find_line(lines, lineno, 1)
        pos == IF lineno # 0 THEN idx ELSE 0
    IN  IF lineno # 0 /\ (idx = 0 \/ lines[idx].lineno # lineno)
        THEN [ok |-> FALSE, lines |-> lines]
        ELSE IF Len(insert) < count
        THEN [ok |-> FALSE, lines |-> lines]
        ELSE [ok |-> TRUE,
              lines |-> SubSeq(lines, 1, pos)
                          \o added_lines(lines, insert, pos, count)
                          \o SubSeq(lines, pos + 1, Len(lines))]

\* lines_delete: tombstone count lines from the line numbered lineno
lines_delete(lines, lineno, count) ==
    LET idx == find_line(lines, lineno, 1)
        hit(i) == /\ idx # 0
                  /\ idx + i <= Len(lines)
                  /\ lines[idx + i].lineno = lineno + i
    IN  IF \E i \in 0..(count - 1) : ~hit(i)
        THEN [ok |-> FALSE, lines |-> lines]
        ELSE [ok |-> TRUE,
              lines |-> [j \in 1..Len(lines) |->
                           IF idx # 0 /\ j >= idx /\ j < idx + count
                           THEN [lines[j] EXCEPT !.line = NullLine]
                           ELSE lines[j]]]

(***************************************************************************)
(* Text patch engine: apply_patch of src/rcs-text.c                        *)
(***************************************************************************)

\* the command loop of apply_patch from patch line p on
RECURSIVE patch_loop(_, _, _)
patch_loop(data_lines, patch_lines, p) ==
    IF p > Len(patch_lines) THEN [ok |-> TRUE, lines |-> data_lines]
    ELSE LET pln == patch_lines[p].line
             rest == SubSeq(patch_lines, p + 1, Len(patch_lines))
         IN  IF pln.c = "b"
             THEN patch_loop(data_lines, patch_lines, p + 1)
             ELSE IF pln.c # "a" /\ pln.c # "d"
             THEN [ok |-> FALSE, lines |-> data_lines]
             ELSE IF pln.c = "a"
             THEN LET r == lines_insert(data_lines, rest, pln.n, pln.k)
                  IN  IF ~r.ok THEN r
                      ELSE patch_loop(r.lines, patch_lines, p + 1 + pln.k)
             ELSE LET r == lines_delete(data_lines, pln.n, pln.k)
                  IN  IF ~r.ok THEN r
                      ELSE patch_loop(r.lines, patch_lines, p + 1)

\* apply_patch: ok = FALSE is the fatal "bad RCS patch"
apply_patch(data_lines, patch_lines) ==
    LET r == patch_loop(data_lines, patch_lines, 1)
    IN  IF r.ok THEN [ok |-> TRUE, lines |-> lines_reset(r.lines)] ELSE r

(***************************************************************************)
(* Specification SpecLines: an insert patch, then a delete patch.          *)
(***************************************************************************)
MaxLines == 3

MaxIns == 2

TextIds == {1, 2}

\* line lists as they stand between patches: numbered 1..n, no tombstones
DataLists ==
    {[i \in 1..Len(s) |->
         [lineno |-> i, line |-> Text(s[i]),
          no_newline |-> (nn /\ i = Len(s))]] :
      s \in SeqsOf(TextIds, 0, MaxLines), nn \in BOOLEAN}

\* the contents of a line list, in order
Contents(lines) == [i \in 1..Len(lines) |-> lines[i].line]

LineInit ==
    /\ lpc = "start"
    /\ lorig \in DataLists
    /\ ldata = lorig
    /\ lcmd = <<0, 0>>
    /\ NotLineIdle

\* a patch made of the single command aN C and its C inserted lines
LineInsertPatch ==
    /\ lpc = "start"
    /\ \E N \in 0..MaxLines, C \in 0..MaxIns, nn \in BOOLEAN :
         \E ins \in [1..C -> TextIds] :
            LET patch == <<PLine(Cmd("a", N, C), C = 0 /\ nn)>>
                           \o [i \in 1..C |-> PLine(Text(ins[i]), nn /\ i = C)]
                r == apply_patch(ldata, patch)
            IN  /\ lcmd' = <<N, C>>
                /\ IF r.ok
                   THEN ldata' = r.lines /\ lpc' = "inserted"
                   ELSE ldata' = ldata /\ lpc' = "fatal"
    /\ UNCHANGED lorig
    /\ UNCHANGED notLine

\* a patch made of the single command d<dn> C, dn being N or N+1
LineDeletePatch ==
    /\ lpc = "inserted"
    /\ \E dn \in {lcmd[1], lcmd[1] + 1} :
         LET patch == <<PLine(Cmd("d", dn, lcmd[2]), FALSE)>>
             r == apply_patch(ldata, patch)
         IN  /\ lcmd' = <<lcmd[1], lcmd[2], dn>>
             /\ IF r.ok
                THEN ldata' = r.lines /\ lpc' = "deleted"
                ELSE ldata' = ldata /\ lpc' = "fatal"
    /\ UNCHANGED lorig
    /\ UNCHANGED notLine

LineNext == LineInsertPatch \/ LineDeletePatch

SpecLines == LineInit /\ [][LineNext]_vars

\* C9 as stated: 'aN C' then 'dN C' with the same N restores the line
\* contents of L
C9_SameN_Restores ==
    (lpc = "deleted" /\ lcmd[3] = lcmd[1]) => Contents(ldata) = Contents(lorig)

\* C9 amended: 'aN C' then 'd(N+1) C' (the delete starts at the first
\* inserted line) restores L: same contents, order, numbers and flags
C9_NextN_Restores ==
    (lpc = "deleted" /\ lcmd[3] = lcmd[1] + 1) => ldata = lorig

\* witness of C9: two lines inserted after line 1 of a 2-line list, then
\* deleted again by d2 2
C9_Witness ==
    /\ lpc = "deleted"
    /\ lcmd = <<1, 2, 2>>
    /\ Len(lorig) = 2
    /\ ldata = lorig

(***************************************************************************)
(* '@@' unescaping: rcs_data_unescape_ats of src/rcs-keyword.c (one line   *)
(* of text) and rcs_binary_data_unescape_ats of src/rcs-binary.c (a byte   *)
(* buffer).  A line or buffer is a sequence of characters.                 *)
(***************************************************************************)

\* line_findstr(lp, "@@"): the first index >= lp where "@@" starts, 0 if none
RECURSIVE line_findstr_atat(_, _)
line_findstr_atat(line, lp) ==
    IF lp + 1 > Len(line) THEN 0
    ELSE IF line[lp] = "@" /\ line[lp + 1] = "@" THEN lp
    ELSE line_findstr_atat(line, lp + 1)

\* the sequence without its i-th element (the memmove of the tail)
RemoveAt(line, i) == SubSeq(line, 1, i - 1) \o SubSeq(line, i + 1, Len(line))

\* the while loop of rcs_data_unescape_ats, searching from lp
RECURSIVE unescape_from(_, _)
unescape_from(line, lp) ==
    LET at == line_findstr_atat(line, lp)
    IN  IF at = 0 THEN line
        ELSE unescape_from(RemoveAt(line, at + 1), at + 1)

\* mutant: the search resumes at the '@' that was kept (lp = at)
RECURSIVE unescape_rescan(_, _)
unescape_rescan(line, lp) ==
    LET at == line_findstr_atat(line, lp)
    IN  IF at = 0 THEN line
        ELSE unescape_rescan(RemoveAt(line, at + 1), at)

\* mutant of rcs_data_unescape_ats built on unescape_rescan
rcs_data_unescape_ats_rescan(line) == unescape_rescan(line, 1)

\* rcs_data_unescape_ats on one line
rcs_data_unescape_ats(line) == unescape_from(line, 1)

\* the first loop of rcs_binary_data_unescape_ats: the positions (1-based)
\* recorded in atat_positions, scanning from i
RECURSIVE atat_positions(_, _)
atat_positions(buf, i) ==
    IF i > Len(buf) - 1 THEN <<>>
    ELSE IF buf[i] # "@" \/ buf[i + 1] # "@" THEN atat_positions(buf, i + 1)
    ELSE <<i>> \o atat_positions(buf, i + 2)

\* the memmove loop from the i-th recorded position on: each move brings
\* the bytes after position pos[i], up to the next position, down
RECURSIVE moved_segments(_, _, _)
moved_segments(buf, pos, i) ==
    IF i > Len(pos) THEN <<>>
    ELSE LET end == IF i = Len(pos) THEN Len(buf) ELSE pos[i + 1] - 1
         IN  SubSeq(buf, pos[i] + 1, end) \o moved_segments(buf, pos, i + 1)

\* rcs_binary_data_unescape_ats
rcs_binary_data_unescape_ats(buf) ==
    IF Len(buf) = 0 THEN buf
    ELSE LET pos == atat_positions(buf, 1)
         IN  IF Len(pos) = 0 THEN buf
             ELSE SubSeq(buf, 1, pos[1] - 1) \o moved_segments(buf, pos, 1)

(***************************************************************************)
(* Specification SpecAts: a line or a buffer unescaped once, then again.   *)
(***************************************************************************)
MaxAtLen == 5

AtChars == {"@", "x"}

AtsInit ==
    /\ apc = "start"
    /\ akind \in {"text", "binary"}
    /\ ain \in SeqsOf(AtChars, 0, MaxAtLen)
    /\ aprev = ain
    /\ abuf = ain
    /\ NotAtsIdle

AtsNextPc == IF apc = "start" THEN "once" ELSE "twice"

TextUnescape ==
    /\ akind = "text"
    /\ apc \in {"start", "once"}
    /\ aprev' = abuf
    /\ abuf' = rcs_data_unescape_ats(abuf)
    /\ apc' = AtsNextPc
    /\ UNCHANGED <<akind, ain>>
    /\ UNCHANGED notAts

BinaryUnescape ==
    /\ akind = "binary"
    /\ apc \in {"start", "once"}
    /\ aprev' = abuf
    /\ abuf' = rcs_binary_data_unescape_ats(abuf)
    /\ apc' = AtsNextPc
    /\ UNCHANGED <<akind, ain>>
    /\ UNCHANGED notAts

AtsNext == TextUnescape \/ BinaryUnescape

SpecAts == AtsInit /\ [][AtsNext]_vars

\* three '@' in a row somewhere in the sequence
HasTripleAt(s) ==
    \E i \in 1..(Len(s) - 2) : s[i] = "@" /\ s[i + 1] = "@" /\ s[i + 2] = "@"

\* C10 as stated: a second '@@' collapse of a line or buffer leaves the
\* output of the first collapse unchanged
C10_SecondPassNoChange ==
    apc = "twice" => abuf = aprev

\* C10 amended: a second collapse leaves the output of the first unchanged
\* exactly when the input holds no three adjacent '@' (one pass halves each
\* run of '@', rounding up, so a run of three or more leaves an '@@' behind)
C10_SecondPassNoChangeIffNoTriple ==
    apc = "twice" => ((abuf = aprev) <=> ~HasTripleAt(ain))

\* witness of C10: "x@@x@" collapsed to "x@x@", and again with no change
C10_Witness ==
    /\ apc = "twice"
    /\ ain = <<"x", "@", "@", "x", "@">>
    /\ aprev = <<"x", "@", "x", "@">>
    /\ abuf = aprev

(***************************************************************************)
(* RCS files.  A struct rcs_file is a record; its version list is the      *)
(* sequence versions of struct rcs_version records [number, parent,        *)
(* branches, ...] (parent is the "next in ,v file" number, <<>> when its   *)
(* c is 0; branches is the sequence of branch start numbers).              *)
(***************************************************************************)

\* the result of a search that found nothing (a NULL pointer)
NoVersion == [number |-> <<>>]

\* the loop of rcs_file_find_version from list index i
RECURSIVE find_version_from(_, _, _)
find_version_from(versions, revnum, i) ==
    IF i > Len(versions) THEN NoVersion
    ELSE IF rcs_number_equal(versions[i].number, revnum) THEN versions[i]
    ELSE find_version_from(versions, revnum, i + 1)

\* rcs_file_find_version (NoVersion: NULL)
rcs_file_find_version(file, revnum) ==
    find_version_from(file.versions, revnum, 1)

(***************************************************************************)
(* Revision walkers: read_patches_from_rev and apply_patches_and_emit of   *)
(* src/rcs-text.c and src/rcs-binary.c visit the same nodes in the same    *)
(* order: a chain from its start revision along parent, and after each     *)
(* node the chains of the branches that start there.                       *)
(***************************************************************************)
RECURSIVE walk_chain(_, _)
RECURSIVE walk_branches(_, _, _)

\* the revisions emitted for the chain that starts at rev, in order
walk_chain(file, rev) ==
    IF Len(rev) = 0 THEN <<>>
    ELSE LET ver == rcs_file_find_version(file, rev)
         IN  <<rev>> \o walk_branches(file, ver.branches, 1)
                     \o walk_chain(file, ver.parent)

\* the revisions emitted for the branches from the i-th on
walk_branches(file, branches, i) ==
    IF i > Len(branches) THEN <<>>
    ELSE walk_chain(file, branches[i]) \o walk_branches(file, branches, i + 1)

\* one callback invocation
Call(rev, other) == [rev |-> rev, other |-> other]

\* mutant: the walk starts at the parent of the head revision
text_read_all_skip_head(file) ==
    LET order == walk_chain(file, rcs_file_find_version(file, file.head).parent)
    IN  [i \in 1..Len(order) |-> Call(order[i], FALSE)]

\* rcs_file_read_all_revisions: the callbacks of a text file; emit_revision
\* hands the callback an ordinary payload (it passes no member_type_other)
text_read_all(file) ==
    LET order == walk_chain(file, file.head)
    IN  [i \in 1..Len(order) |-> Call(order[i], FALSE)]

\* export_projdir_revision: the copy in the project directory, if any
export_projdir_revision(file) ==
    IF file.in_projdir THEN <<Call(file.head, TRUE)>> ELSE <<>>

\* rcs_binary_file_read_all_revisions: the callbacks of a binary file
binary_read_all(file) ==
    LET order == IF file.dummy THEN <<>> ELSE walk_chain(file, file.head)
    IN  (IF file.has_member_type_other
         THEN export_projdir_revision(file) ELSE <<>>)
        \o [i \in 1..Len(order) |-> Call(order[i], FALSE)]

(***************************************************************************)
(* Specification SpecWalk: one RCS file of a bounded shape is walked.      *)
(***************************************************************************)
MaxTrunk == 3

MaxBranchLen == 2

\* the lengths of the branches that start at one trunk revision
BranchKinds == SeqsOf(1..MaxBranchLen, 0, 1) \cup {<<1, 1>>}

\* the versions of a trunk 1.1 .. 1.n with, at 1.i, the branches br[i]
TrunkVersion(n, br, i) ==
    [number |-> <<1, i>>,
     parent |-> IF i > 1 THEN <<1, i - 1>> ELSE <<>>,
     branches |-> [k \in 1..Len(br[i]) |-> <<1, i, k, 1>>]]

BranchVersion(br, i, k, j) ==
    [number |-> <<1, i, k, j>>,
     parent |-> IF j < br[i][k] THEN <<1, i, k, j + 1>> ELSE <<>>,
     branches |-> <<>>]

RECURSIVE BranchVersions(_, _, _, _)
BranchVersions(br, i, k, j) ==
    IF i = 0 THEN <<>>
    ELSE IF k > Len(br[i]) THEN BranchVersions(br, i - 1, 1, 1)
    ELSE IF j > br[i][k] THEN BranchVersions(br, i, k + 1, 1)
    ELSE <<BranchVersion(br, i, k, j)>> \o BranchVersions(br, i, k, j + 1)

ShapeVersions(n, br) ==
    [i \in 1..n |-> TrunkVersion(n, br, n + 1 - i)] \o BranchVersions(br, n, 1, 1)

WalkFiles ==
    {[dummy |-> FALSE, binary |-> bin, head |-> <<1, n>>,
      versions |-> ShapeVersions(n, br),
      has_member_type_other |-> mto, in_projdir |-> pd] :
        n \in 1..MaxTrunk, br \in [1..MaxTrunk -> BranchKinds],
        bin \in BOOLEAN, mto \in BOOLEAN, pd \in BOOLEAN}
    \cup
    {[dummy |-> TRUE, binary |-> TRUE, head |-> <<1, 1>>, versions |-> <<>>,
      has_member_type_other |-> TRUE, in_projdir |-> pd] : pd \in BOOLEAN}

WalkInit ==
    /\ wpc = "start"
    /\ wfile \in WalkFiles
    /\ wcalls = <<>>
    /\ NotWalkIdle

\* export_blobs hands a text file to rcs_file_read_all_revisions
WalkText ==
    /\ wpc = "start"
    /\ ~wfile.binary
    /\ wcalls' = text_read_all(wfile)
    /\ wpc' = "done"
    /\ UNCHANGED wfile
    /\ UNCHANGED notWalk

\* export_blobs hands binary and dummy files to
\* rcs_binary_file_read_all_revisions
WalkBinary ==
    /\ wpc = "start"
    /\ wfile.binary
    /\ wcalls' = binary_read_all(wfile)
    /\ wpc' = "done"
    /\ UNCHANGED wfile
    /\ UNCHANGED notWalk

WalkNext == WalkText \/ WalkBinary

SpecWalk == WalkInit /\ [][WalkNext]_vars

\* how many of the calls are c
CountCalls(calls, c) == Cardinality({i \in 1..Len(calls) : calls[i] = c})

\* C6: the walker invokes the callback exactly once with
\* member_type_other = false for every entry of the file's version list (and
\* for nothing else), and at most once with member_type_other = true, which
\* happens only when has_member_type_other is set
C6_OncePerVersion ==
    wpc = "done" =>
        /\ \A i \in 1..Len(wfile.versions) :
              CountCalls(wcalls, Call(wfile.versions[i].number, FALSE)) = 1
        /\ \A i \in 1..Len(wcalls) :
              ~wcalls[i].other =>
                  rcs_file_find_version(wfile, wcalls[i].rev) # NoVersion
        /\ Cardinality({i \in 1..Len(wcalls) : wcalls[i].other}) <= 1
        /\ (\E i \in 1..Len(wcalls) : wcalls[i].other)
              => wfile.has_member_type_other

\* witness of C6: a binary file with two branches at 1.1, listed with member
\* type "other" and present in the project directory: 1 + 4 callbacks
C6_Witness ==
    /\ wpc = "done"
    /\ wfile.binary /\ ~wfile.dummy
    /\ Len(wfile.versions) = 4
    /\ wcalls = <<Call(<<1, 2>>, TRUE), Call(<<1, 2>>, FALSE),
                  Call(<<1, 1>>, FALSE), Call(<<1, 1, 1, 1>>, FALSE),
                  Call(<<1, 1, 2, 1>>, FALSE)>>

(***************************************************************************)
(* C strings.  A string is the sequence of its character codes; reading    *)
(* past its end yields the terminating NUL (0).                            *)
(***************************************************************************)
CharAt(str, i) == IF i <= Len(str) THEN str[i] ELSE 0

\* tolower for the ASCII letters
ToLower(c) == IF c >= 65 /\ c <= 90 THEN c + 32 ELSE c

\* the comparison loop of strncmp (fold = FALSE) and strncasecmp (fold =
\* TRUE) from index i, over at most n characters
RECURSIVE strn_from(_, _, _, _, _)
strn_from(a, b, i, n, fold) ==
    IF i > n THEN 0
    ELSE LET ca == IF fold THEN ToLower(CharAt(a, i)) ELSE CharAt(a, i)
             cb == IF fold THEN ToLower(CharAt(b, i)) ELSE CharAt(b, i)
         IN  IF ca < cb THEN -1
             ELSE IF ca > cb THEN 1
             ELSE IF ca = 0 THEN 0
             ELSE strn_from(a, b, i + 1, n, fold)

strncmp(a, b, n) == strn_from(a, b, 1, n, FALSE)

strncasecmp(a, b, n) == strn_from(a, b, 1, n, TRUE)

strcmp(a, b) == strn_from(a, b, 1, Max(Len(a), Len(b)) + 1, FALSE)

strcasecmp(a, b) == strn_from(a, b, 1, Max(Len(a), Len(b)) + 1, TRUE)

\* the string that starts at the pointer str + (i - 1)
StrFrom(str, i) == SubSeq(str, i, Len(str))

\* memcpy(dst, src, strlen(src)): src written over the start of dst
MemcpyOver(dst, src) ==
    [i \in 1..Max(Len(dst), Len(src)) |->
        IF i <= Len(src) THEN src[i] ELSE dst[i]]

\* strrchr(path, '/'): the index of the last '/' in path, 0 if there is none
RECURSIVE strrchr_slash(_, _)
strrchr_slash(path, i) ==
    IF i = 0 THEN 0
    ELSE IF path[i] = 47 THEN i
    ELSE strrchr_slash(path, i - 1)

\* the file-name part of a path (after the last '/')
BaseName(path) == StrFrom(path, strrchr_slash(path, Len(path)) + 1)

\* is_parent_dir: path lies underneath directory dirpath, letter case aside
is_parent_dir(dirpath, path) ==
    /\ Len(path) > Len(dirpath)
    /\ path[Len(dirpath) + 1] = 47
    /\ strncasecmp(dirpath, path, Len(dirpath)) = 0

(***************************************************************************)
(* Directory lists: src/utils.c.  A struct dir_path is [path, len].        *)
(***************************************************************************)

\* dir_list_from_path: "a/b/c/foo.txt" gives "a/", "a/b/", "a/b/c/"
RECURSIVE dir_list_from(_, _)
dir_list_from(path, pos) ==
    IF pos > Len(path) THEN <<>>
    ELSE IF path[pos] # 47 THEN dir_list_from(path, pos + 1)
    ELSE <<[path |-> path, len |-> pos]>> \o dir_list_from(path, pos + 1)

dir_list_from_path(path) == dir_list_from(path, 1)

\* dir_list_remove_duplicates: new_list without what old_list lists
dir_list_remove_duplicates(new_list, old_list) ==
    SelectSeq(new_list,
        LAMBDA n : ~\E j \in 1..Len(old_list) :
            /\ n.len = old_list[j].len
            /\ strncasecmp(n.path, old_list[j].path, n.len) = 0)

\* the directories of the paths of a list of file revisions, from the i-th
RECURSIVE frev_dirs(_, _, _)
frev_dirs(frevs, i, dirs) ==
    IF i > Len(frevs) THEN dirs
    ELSE frev_dirs(frevs, i + 1,
            dirs \o dir_list_remove_duplicates(
                        dir_list_from_path(frevs[i].canonical_name), dirs))

(***************************************************************************)
(* Changesets: src/changeset.c.  A list of struct rcs_file_revision is a   *)
(* sequence of records [file, rev, canonical_name, member_type_other,      *)
(* ver]; a list of struct file_change is a sequence of Change records.     *)
(* file is the name of an entry of the file table, NoFile for NULL; a      *)
(* revision number that was never populated is <<>> (c = 0).               *)
(***************************************************************************)
NoFile == "NULL"

Change(file, name, oldname, oldrev, newrev, other, projrev) ==
    [file |-> file, canonical_name |-> name, old_canonical_name |-> oldname,
     oldrev |-> oldrev, newrev |-> newrev,
     member_type_other |-> other, projrev_update |-> projrev]

\* whether some entry of a list of file revisions is of file f
ListsFile(frevs, f) == \E j \in 1..Len(frevs) : frevs[j].file = f

\* find_adds: any file in new missing from old
find_adds(old, new) ==
    LET added == SelectSeq(new, LAMBDA n : ~ListsFile(old, n.file))
    IN  [i \in 1..Len(added) |->
            Change(added[i].file, added[i].canonical_name, <<>>, <<>>,
                   added[i].rev, added[i].member_type_other, FALSE)]

\* the inner loop of find_updates for old entry o, from new entry j
RECURSIVE updates_of(_, _, _)
updates_of(o, new, j) ==
    IF j > Len(new) THEN <<>>
    ELSE IF /\ o.file = new[j].file
            /\ \/ ~rcs_number_equal(o.rev, new[j].rev)
               \/ o.member_type_other # new[j].member_type_other
         THEN <<Change(new[j].file, new[j].canonical_name, <<>>, o.rev,
                       new[j].rev, new[j].member_type_other, FALSE)>>
                  \o updates_of(o, new, j + 1)
         ELSE updates_of(o, new, j + 1)

\* the first loop of find_updates, from old entry i
RECURSIVE regular_updates(_, _, _)
regular_updates(old, new, i) ==
    IF i > Len(old) THEN <<>>
    ELSE updates_of(old[i], new, 1) \o regular_updates(old, new, i + 1)

\* the second loop of find_updates, from new entry j: an update for every
\* file whose version has $ProjectRevision$, that is in old too and is not
\* on the update list yet
RECURSIVE projrev_updates(_, _, _, _)
projrev_updates(old, new, j, head) ==
    IF j > Len(new) THEN head
    ELSE IF /\ new[j].ver # NoVersion
            /\ new[j].ver.kw_projrev
            /\ ListsFile(old, new[j].file)
            /\ ~\E k \in 1..Len(head) : head[k].file = new[j].file
         THEN projrev_updates(old, new, j + 1,
                  Append(head, Change(new[j].file, new[j].canonical_name,
                                      <<>>, new[j].rev, new[j].rev,
                                      FALSE, TRUE)))
         ELSE projrev_updates(old, new, j + 1, head)

\* find_updates
find_updates(old, new, exporting_tip) ==
    IF exporting_tip THEN regular_updates(old, new, 1)
    ELSE projrev_updates(old, new, 1, regular_updates(old, new, 1))

\* mutant: a file is reported deleted when it is missing from old
find_deletes_swapped(old, new) ==
    LET gone == SelectSeq(old, LAMBDA o : ~ListsFile(old, o.file))
    IN  [i \in 1..Len(gone) |->
            Change(gone[i].file, gone[i].canonical_name, <<>>, gone[i].rev,
                   <<>>, FALSE, FALSE)]

\* find_deletes: any file in old missing from new
find_deletes(old, new) ==
    LET gone == SelectSeq(old, LAMBDA o : ~ListsFile(new, o.file))
    IN  [i \in 1..Len(gone) |->
            Change(gone[i].file, gone[i].canonical_name, <<>>, gone[i].rev,
                   <<>>, FALSE, FALSE)]

\* the index of the longest renamed parent directory of oldname among
\* dir_renames (the first loop of apply_parent_dir_renames_to_rename)
RECURSIVE longest_parent(_, _, _, _)
longest_parent(oldname, dir_renames, i, rlong) ==
    IF i > Len(dir_renames) THEN rlong
    ELSE IF /\ is_parent_dir(dir_renames[i].old_canonical_name, oldname)
            /\ \/ rlong = 0
               \/ Len(dir_renames[i].canonical_name)
                      > Len(dir_renames[rlong].canonical_name)
         THEN longest_parent(oldname, dir_renames, i + 1, i)
         ELSE longest_parent(oldname, dir_renames, i + 1, rlong)

\* mutant: the old path keeps the old names of renamed parent directories
apply_parent_dir_renames_unapplied(rename, dir_renames) == rename

\* apply_parent_dir_renames_to_rename
apply_parent_dir_renames_to_rename(rename, dir_renames) ==
    LET rlong == longest_parent(rename.old_canonical_name, dir_renames, 1, 0)
    IN  IF rlong = 0 THEN rename
        ELSE [rename EXCEPT !.old_canonical_name =
                 MemcpyOver(@, dir_renames[rlong].canonical_name)]

\* the index where the scan back from the last name character of a
\* directory path stops: at the '/' before its final name, or at the start
RECURSIVE final_dir_from(_, _)
final_dir_from(path, i) ==
    IF i > 1 /\ path[i] # 47 THEN final_dir_from(path, i - 1) ELSE i

\* whether old directory od and new directory nd are one directory whose
\* final name changed its capitalization
dir_renamed(od, nd) ==
    /\ od.len = nd.len
    /\ strncasecmp(od.path, nd.path, nd.len) = 0
    /\ strncmp(od.path, nd.path, nd.len) # 0
    /\ LET k == final_dir_from(od.path, od.len - 1)
       IN  strncmp(StrFrom(od.path, k), StrFrom(nd.path, k),
                   nd.len - (k - 1)) # 0

\* the nested loops of find_implicit_dir_renames from (i, j); a new rename
\* goes to the head of the list
RECURSIVE dir_renames_from(_, _, _, _, _)
dir_renames_from(old_dirs, new_dirs, i, j, head) ==
    IF i > Len(old_dirs) THEN head
    ELSE IF j > Len(new_dirs)
         THEN dir_renames_from(old_dirs, new_dirs, i + 1, 1, head)
    ELSE IF dir_renamed(old_dirs[i], new_dirs[j])
         THEN LET od == old_dirs[i]
                  nd == new_dirs[j]
                  rename == Change(NoFile, SubSeq(nd.path, 1, nd.len - 1),
                                   SubSeq(od.path, 1, od.len - 1),
                                   <<>>, <<>>, FALSE, FALSE)
              IN  dir_renames_from(old_dirs, new_dirs, i, j + 1,
                      <<apply_parent_dir_renames_to_rename(rename, head)>>
                          \o head)
         ELSE dir_renames_from(old_dirs, new_dirs, i, j + 1, head)

\* find_implicit_dir_renames
find_implicit_dir_renames(old, new) ==
    dir_renames_from(frev_dirs(old, 1, <<>>), frev_dirs(new, 1, <<>>),
                     1, 1, <<>>)

\* the nested loops of find_implicit_file_renames from (i, j)
RECURSIVE file_renames_from(_, _, _, _, _, _)
file_renames_from(old, new, dir_renames, i, j, head) ==
    IF i > Len(old) THEN head
    ELSE IF j > Len(new)
         THEN file_renames_from(old, new, dir_renames, i + 1, 1, head)
    ELSE LET opath == old[i].canonical_name
             npath == new[j].canonical_name
         IN  IF /\ strcasecmp(opath, npath) = 0
                /\ strcmp(BaseName(opath), BaseName(npath)) # 0
             THEN LET rename == Change(new[j].file, npath, opath,
                                       <<>>, <<>>, FALSE, FALSE)
                  IN  file_renames_from(old, new, dir_renames, i, j + 1,
                          <<apply_parent_dir_renames_to_rename(
                                rename, dir_renames)>> \o head)
             ELSE file_renames_from(old, new, dir_renames, i, j + 1, head)

\* find_implicit_file_renames
find_implicit_file_renames(old, new, dir_renames) ==
    file_renames_from(old, new, dir_renames, 1, 1, <<>>)

\* the result of a patch search that found nothing (a NULL pointer)
NoPatch == [number |-> <<>>]

\* the loop of rcs_file_find_patch from list index i
RECURSIVE find_patch_from(_, _, _)
find_patch_from(patches, revnum, i) ==
    IF i > Len(patches) THEN NoPatch
    ELSE IF rcs_number_equal(patches[i].number, revnum) THEN patches[i]
    ELSE find_patch_from(patches, revnum, i + 1)

\* rcs_file_find_patch (NoPatch: NULL)
rcs_file_find_patch(file, revnum) ==
    find_patch_from(file.patches, revnum, 1)

\* mutant: the add stays at the revision the manifest lists
adjust_add_stay(files, c, prevrev, old_date, upd) ==
    [c |-> c, upd |-> upd]

\* the inner loop of adjust_adds for add c with previous revision prevrev;
\* upd is new_updates.  Yields the add and new_updates.
RECURSIVE adjust_add(_, _, _, _, _)
adjust_add(files, c, prevrev, old_date, upd) ==
    IF files[c.file].dummy \/ rcs_number_decrement_null(prevrev)
    THEN [c |-> c, upd |-> upd]
    ELSE LET prev == rcs_number_decrement(prevrev)
             prevver == rcs_file_find_version(files[c.file], prev)
         IN  IF prevver = NoVersion THEN [c |-> c, upd |-> upd]
             ELSE IF prevver.checkpointed \/ prevver.date <= old_date
                  THEN [c |-> c, upd |-> upd]
             ELSE adjust_add(files, [c EXCEPT !.newrev = prev], prev,
                      old_date,
                      <<Change(c.file, c.canonical_name, <<>>, prev,
                               c.newrev, FALSE, FALSE)>> \o upd)

\* the outer loop of adjust_adds from add i: [adds, upd]
RECURSIVE adjust_adds_from(_, _, _, _, _)
adjust_adds_from(files, adds, i, old_date, upd) ==
    IF i > Len(adds) THEN [adds |-> adds, upd |-> upd]
    ELSE LET r == adjust_add(files, adds[i], adds[i].newrev, old_date, upd)
         IN  adjust_adds_from(files, [adds EXCEPT ![i] = r.c], i + 1,
                              old_date, r.upd)

\* adjust_adds: the adds moved back to the revision that was added, and
\* the updates that followed
adjust_adds(files, adds, old_date) ==
    adjust_adds_from(files, adds, 1, old_date, <<>>)

\* mutant: a "Duplicate revision" gets an update of its own
RECURSIVE adjust_update_keep_duplicates(_, _, _, _)
adjust_update_keep_duplicates(files, c, prevrev, upd) ==
    LET prev == rcs_number_decrement(prevrev)
        patch == rcs_file_find_patch(files[c.file], prev)
    IN  IF rcs_number_compare(c.oldrev, prev) >= 0
        THEN [ok |-> TRUE, c |-> c, upd |-> upd]
        ELSE IF rcs_number_decrement_null(prevrev)
             THEN [ok |-> FALSE, c |-> c, upd |-> upd]
        ELSE IF patch = NoPatch
             THEN adjust_update_keep_duplicates(files, c, prev, upd)
        ELSE adjust_update_keep_duplicates(files,
                 [c EXCEPT !.newrev = prev], prev,
                 <<Change(c.file, c.canonical_name, <<>>, prev, c.newrev,
                          FALSE, FALSE)>> \o upd)

\* the inner loop of adjust_updates for update c with previous revision
\* prevrev; upd is new_updates.  rcs_number_decrement leaves x.0 behind
\* when nothing is previous; from there on the loop never ends if oldrev
\* still compares lower (ok = FALSE).
RECURSIVE adjust_update(_, _, _, _)
adjust_update(files, c, prevrev, upd) ==
    LET prev == rcs_number_decrement(prevrev)
        patch == rcs_file_find_patch(files[c.file], prev)
    IN  IF rcs_number_compare(c.oldrev, prev) >= 0
        THEN [ok |-> TRUE, c |-> c, upd |-> upd]
        ELSE IF rcs_number_decrement_null(prevrev)
             THEN [ok |-> FALSE, c |-> c, upd |-> upd]
        ELSE IF patch = NoPatch
             THEN adjust_update(files, c, prev, upd)
        ELSE IF patch.log = "Duplicate revision\n"
             THEN adjust_update(files, c, prev, upd)
        ELSE adjust_update(files, [c EXCEPT !.newrev = prev], prev,
                 <<Change(c.file, c.canonical_name, <<>>, prev, c.newrev,
                          FALSE, FALSE)>> \o upd)

\* the outer loop of adjust_updates from update i: [ok, updates, upd]
RECURSIVE adjust_updates_from(_, _, _, _)
adjust_updates_from(files, updates, i, upd) ==
    IF i > Len(updates) THEN [ok |-> TRUE, updates |-> updates, upd |-> upd]
    ELSE IF rcs_number_compare(updates[i].oldrev, updates[i].newrev) > 0
         THEN adjust_updates_from(files, updates, i + 1, upd)
    ELSE LET r == adjust_update(files, updates[i], updates[i].newrev, upd)
         IN  IF ~r.ok
             THEN [ok |-> FALSE, updates |-> updates, upd |-> upd]
             ELSE adjust_updates_from(files, [updates EXCEPT ![i] = r.c],
                                      i + 1, r.upd)

\* adjust_updates: multi-revision updates expanded to one update for every
\* revision
adjust_updates(files, updates) == adjust_updates_from(files, updates, 1, <<>>)

\* the inner loop of adjust_deletes for delete c with next revision nextrev
RECURSIVE adjust_delete(_, _, _, _, _)
adjust_delete(files, c, nextrev, new_date, upd) ==
    IF files[c.file].dummy THEN [c |-> c, upd |-> upd]
    ELSE LET next == rcs_number_increment(nextrev)
             nextver == rcs_file_find_version(files[c.file], next)
         IN  IF nextver = NoVersion THEN [c |-> c, upd |-> upd]
             ELSE IF nextver.checkpointed \/ nextver.date > new_date
                  THEN [c |-> c, upd |-> upd]
             ELSE adjust_delete(files, [c EXCEPT !.oldrev = next], next,
                      new_date,
                      <<Change(c.file, c.canonical_name, <<>>, c.oldrev,
                               next, FALSE, FALSE)>> \o upd)

\* the outer loop of adjust_deletes from delete i: [deletes, upd]
RECURSIVE adjust_deletes_from(_, _, _, _, _)
adjust_deletes_from(files, deletes, i, new_date, upd) ==
    IF i > Len(deletes) THEN [deletes |-> deletes, upd |-> upd]
    ELSE LET r == adjust_delete(files, deletes[i], deletes[i].oldrev,
                                new_date, upd)
         IN  adjust_deletes_from(files, [deletes EXCEPT ![i] = r.c], i + 1,
                                 new_date, r.upd)

\* adjust_deletes: files that were updated and deleted
adjust_deletes(files, deletes, new_date) ==
    adjust_deletes_from(files, deletes, 1, new_date, <<>>)

\* remove_nonexistent_file_revisions
remove_nonexistent_file_revisions(files, changes) ==
    SelectSeq(changes,
        LAMBDA c :
            LET f == files[c.file]
            IN  IF f.dummy THEN f.binary /\ f.other_blob_mark # 0
                ELSE /\ rcs_file_find_version(f, c.newrev) # NoVersion
                     /\ rcs_file_find_patch(f, c.newrev) # NoPatch)

\* the scan of adjust_deletes_for_renames over the renames from the i-th for
\* delete d: the index of the rename to apply (rlong), 0 for none
RECURSIVE rename_for_delete(_, _, _, _)
rename_for_delete(d, renames, i, rlong) ==
    IF i > Len(renames) THEN rlong
    ELSE LET r == renames[i]
         IN  IF r.file # NoFile
             THEN IF /\ strcasecmp(d.canonical_name, r.canonical_name) = 0
                     /\ strcmp(d.canonical_name, r.canonical_name) # 0
                  THEN i
                  ELSE rename_for_delete(d, renames, i + 1, rlong)
             ELSE IF /\ is_parent_dir(r.canonical_name, d.canonical_name)
                     /\ strncmp(d.canonical_name, r.canonical_name,
                                Len(r.canonical_name)) # 0
                     /\ \/ rlong = 0
                        \/ Len(r.canonical_name)
                               > Len(renames[rlong].canonical_name)
                  THEN rename_for_delete(d, renames, i + 1, i)
                  ELSE rename_for_delete(d, renames, i + 1, rlong)

\* adjust_deletes_for_renames: the deletes use the paths after the renames
adjust_deletes_for_renames(renames, deletes) ==
    [k \in 1..Len(deletes) |->
        LET rlong == rename_for_delete(deletes[k], renames, 1, 0)
        IN  IF rlong = 0 THEN deletes[k]
            ELSE [deletes[k] EXCEPT !.canonical_name =
                     MemcpyOver(@, renames[rlong].canonical_name)]]

compare_by_name(a, b) == strcmp(a.canonical_name, b.canonical_name)

\* (time_t)~0, the date of the changes of dummy files
DummyDate == -1

\* get_change_date; pj_date is the date of project revision pj_revnum_cur
get_change_date(files, pj_date, c) ==
    IF c.projrev_update THEN pj_date
    ELSE IF files[c.file].dummy THEN DummyDate
    ELSE rcs_file_find_version(files[c.file], c.newrev).date

compare_by_date(files, pj_date, a, b) ==
    LET adate == get_change_date(files, pj_date, a)
        bdate == get_change_date(files, pj_date, b)
    IN  IF adate < bdate THEN -1
        ELSE IF adate > bdate THEN 1
        ELSE compare_by_name(a, b)

\* mutant: revisions of one file are left in date order
compare_by_rev_none(a, b) == 0

compare_by_rev(a, b) ==
    IF a.file = b.file THEN rcs_number_compare(a.newrev, b.newrev) ELSE 0

\* the function pointer that sort_changes is given: compare_by_name,
\* compare_by_date or compare_by_rev as a function of two changes of list
compare_by_name_of(list) ==
    [c \in {list[k] : k \in 1..Len(list)},
     cc \in {list[k] : k \in 1..Len(list)} |-> compare_by_name(c, cc)]

compare_by_date_of(files, pj_date, list) ==
    [c \in {list[k] : k \in 1..Len(list)},
     cc \in {list[k] : k \in 1..Len(list)} |->
        compare_by_date(files, pj_date, c, cc)]

compare_by_rev_of(list) ==
    [c \in {list[k] : k \in 1..Len(list)},
     cc \in {list[k] : k \in 1..Len(list)} |-> compare_by_rev(c, cc)]

\* mutant: every change is linked at the end of the new list
sort_position_end(c, head, compare) == Len(head) + 1

\* the index in head before which sort_changes links c: that of the first
\* cc with compare(c, cc) < 0
sort_position(c, head, compare) ==
    LET stops == {k \in 1..Len(head) : compare[c, head[k]] < 0}
                     \cup {Len(head) + 1}
    IN  CHOOSE k \in stops : \A j \in stops : k <= j

\* sort_changes: each change is popped off the front of list and insertion
\* sorted into the new list (sorted[i]: the new list after i changes)
sort_changes(list, compare) ==
    LET sorted[i \in 0..Len(list)] ==
            IF i = 0 THEN <<>>
            ELSE LET head == sorted[i - 1]
                     k == sort_position(list[i], head, compare)
                 IN  SubSeq(head, 1, k - 1) \o <<list[i]>>
                         \o SubSeq(head, k, Len(head))
    IN  sorted[Len(list)]

\* changeset_build: the changes between the file revisions old (of date
\* old_date) and new (of date new_date).  before_drop holds the adds, updates
\* and deletes as they are before remove_nonexistent_file_revisions; ok is
\* FALSE when adjust_updates never returns.
changeset_build(files, old, old_date, new, new_date, exporting_tip, pj_date) ==
    LET dir_renames0 == find_implicit_dir_renames(old, new)
        file_renames0 == find_implicit_file_renames(old, new, dir_renames0)
        renames == sort_changes(dir_renames0,
                                compare_by_name_of(dir_renames0))
                       \o sort_changes(file_renames0,
                                       compare_by_name_of(file_renames0))
        aa == adjust_adds(files, find_adds(old, new), old_date)
        updates1 == find_updates(old, new, exporting_tip) \o aa.upd
        deletes1 == adjust_deletes_for_renames(renames, find_deletes(old, new))
        ad == adjust_deletes(files, deletes1, new_date)
        au == adjust_updates(files, updates1 \o ad.upd)
        updates3 == au.updates \o au.upd
        adds4 == remove_nonexistent_file_revisions(files, aa.adds)
        updates4 == remove_nonexistent_file_revisions(files, updates3)
    IN  [ok |-> au.ok,
         renames |-> renames,
         adds |-> sort_changes(adds4,
                               compare_by_date_of(files, pj_date, adds4)),
         updates |-> sort_changes(
                         sort_changes(updates4,
                             compare_by_date_of(files, pj_date, updates4)),
                         compare_by_rev_of(updates4)),
         deletes |-> sort_changes(ad.deletes,
                                  compare_by_name_of(ad.deletes)),
         before_drop |-> [adds |-> aa.adds, updates |-> updates3,
                          deletes |-> ad.deletes]]

(***************************************************************************)
(* Commits: src/merge.c.  A struct git_commit is a record [committer,      *)
(* date, changes]; changes holds the four lists of a file_change_lists.    *)
(***************************************************************************)
NoChanges == [renames |-> <<>>, adds |-> <<>>, updates |-> <<>>,
              deletes |-> <<>>]

tool_author == [name |-> <<116, 111, 111, 108>>, rcs |-> FALSE]

unknown_author == [name |-> <<117, 110, 107, 110, 111, 119, 110>>,
                   rcs |-> FALSE]

\* author_map: RCS authors that are equal letter case aside map to the same
\* Git author (the entry of the first spelling looked up)
author_map(author) ==
    [name |-> [i \in 1..Len(author) |-> ToLower(author[i])], rcs |-> TRUE]

change_list_sort_by_name(list) ==
    sort_changes(list, compare_by_name_of(list))

\* merge_renames_sub: the commit of the renames of directories (directory
\* TRUE) or files (FALSE) as a list of no or one commit; the renames that
\* stay on the list are those of the other kind
merge_renames_sub(renames, cp_date, directory) ==
    LET taken == SelectSeq(renames,
                     LAMBDA r : (r.file = NoFile) = directory)
    IN  IF taken = <<>> THEN <<>>
        ELSE <<[committer |-> tool_author, date |-> cp_date,
                changes |-> [NoChanges EXCEPT !.renames = taken]]>>

\* update_keywords_for_dir_rename and update_keywords_for_file_rename add
\* an update for a file revision f only if f->ver is set, and no
\* rcs_file_revision has it set: the rename commits stay as they are
update_keywords_for_rename(commits) == commits

\* merge_renames: the directory renames, then the file renames
merge_renames(renames, cp_date) ==
    IF renames = <<>> THEN <<>>
    ELSE update_keywords_for_rename(
             merge_renames_sub(renames, cp_date, TRUE))
         \o update_keywords_for_rename(
                merge_renames_sub(renames, cp_date, FALSE))

\* mutant: the authors of two adds are compared with strcmp
RECURSIVE merge_adds_into_strcmp(_, _, _, _, _, _, _, _)
merge_adds_into_strcmp(files, ver, add_list, i, commit, date, kept, skipped) ==
    IF i > Len(add_list)
    THEN [adds |-> commit, date |-> date, left |-> kept \o skipped]
    ELSE LET a == add_list[i]
             f == files[a.file]
             add_ver == rcs_file_find_version(f, a.newrev)
             add_patch == rcs_file_find_patch(f, a.newrev)
         IN  IF f.dummy
             THEN merge_adds_into_strcmp(files, ver, add_list, i + 1,
                      commit, date, kept, Append(skipped, a))
             ELSE IF \/ add_patch.missing
                     \/ strcmp(add_ver.author, ver.author) # 0
             THEN merge_adds_into_strcmp(files, ver, add_list, i + 1,
                      commit, date, kept \o skipped \o <<a>>, <<>>)
             ELSE merge_adds_into_strcmp(files, ver, add_list, i + 1,
                      Append(commit, a), Max(date, add_ver.date),
                      kept, <<>>)

\* the inner loop of merge_adds over the adds from the i-th of add_list for
\* the commit of add, whose version is ver.  commit: the adds linked to the
\* commit; kept: the adds *old_prev_next was moved past; skipped: the
\* dummy-file adds passed since, which unlinking the next merged add
\* unlinks too.  Yields the commit's adds, its date and the adds left.
RECURSIVE merge_adds_into(_, _, _, _, _, _, _, _)
merge_adds_into(files, ver, add_list, i, commit, date, kept, skipped) ==
    IF i > Len(add_list)
    THEN [adds |-> commit, date |-> date, left |-> kept \o skipped]
    ELSE LET a == add_list[i]
             f == files[a.file]
             add_ver == rcs_file_find_version(f, a.newrev)
             add_patch == rcs_file_find_patch(f, a.newrev)
         IN  IF f.dummy
             THEN merge_adds_into(files, ver, add_list, i + 1, commit,
                      date, kept, Append(skipped, a))
             ELSE IF \/ add_patch.missing
                     \/ strcasecmp(add_ver.author, ver.author) # 0
             THEN merge_adds_into(files, ver, add_list, i + 1, commit,
                      date, kept \o skipped \o <<a>>, <<>>)
             ELSE merge_adds_into(files, ver, add_list, i + 1,
                      Append(commit, a), Max(date, add_ver.date),
                      kept, <<>>)

\* merge_adds: all adds with the same author batched into one commit
RECURSIVE merge_adds(_, _, _)
merge_adds(files, add_list, cp_date) ==
    IF add_list = <<>> THEN <<>>
    ELSE LET add == Head(add_list)
             rest == Tail(add_list)
             f == files[add.file]
             ver == rcs_file_find_version(f, add.newrev)
             patch == rcs_file_find_patch(f, add.newrev)
             m == merge_adds_into(files, ver, rest, 1, <<add>>, ver.date,
                                  <<>>, <<>>)
         IN  IF f.dummy
             THEN <<[committer |-> unknown_author, date |-> cp_date,
                     changes |-> [NoChanges EXCEPT !.adds = <<add>>]]>>
                      \o merge_adds(files, rest, cp_date)
             ELSE IF patch.missing
             THEN <<[committer |-> author_map(ver.author),
                     date |-> ver.date,
                     changes |-> [NoChanges EXCEPT !.adds = <<add>>]]>>
                      \o merge_adds(files, rest, cp_date)
             ELSE <<[committer |-> author_map(ver.author),
                     date |-> m.date,
                     changes |-> [NoChanges EXCEPT !.adds =
                                     change_list_sort_by_name(m.adds)]]>>
                      \o merge_adds(files, m.left, cp_date)

\* merge_projrev_updates: every $ProjectRevision$ update of the unmerged
\* list joins the commit of merge_head
merge_projrev_updates(merge_head, unmerged_head) ==
    [merged |-> <<merge_head>>
                    \o SelectSeq(unmerged_head, LAMBDA u : u.projrev_update),
     unmerged |-> SelectSeq(unmerged_head, LAMBDA u : ~u.projrev_update)]

\* whether a list of changes has a change of file f
ChangesFile(list, f) == \E k \in 1..Len(list) : list[k].file = f

\* mutant: an update joins a commit that already changes its file
RECURSIVE merge_matching_from_same_file(_, _, _, _, _)
merge_matching_from_same_file(files, unmerged_head, i, merged, kept) ==
    IF i > Len(unmerged_head) THEN [merged |-> merged, unmerged |-> kept]
    ELSE LET unmerged == unmerged_head[i]
             f == files[unmerged.file]
             ver == rcs_file_find_version(files[merged[1].file],
                                          merged[1].newrev)
             patch == rcs_file_find_patch(files[merged[1].file],
                                          merged[1].newrev)
             upd_ver == rcs_file_find_version(f, unmerged.newrev)
             upd_patch == rcs_file_find_patch(f, unmerged.newrev)
         IN  IF /\ ~unmerged.projrev_update
                /\ rcs_number_compare(unmerged.newrev, unmerged.oldrev) >= 0
                /\ ~upd_patch.missing
                /\ strcasecmp(upd_ver.author, ver.author) = 0
                /\ upd_patch.log = patch.log
             THEN merge_matching_from_same_file(files, unmerged_head, i + 1,
                      Append(merged, unmerged), kept)
             ELSE merge_matching_from_same_file(files, unmerged_head, i + 1,
                      merged, Append(kept, unmerged))

\* the loop of merge_matching_updates from the i-th update of the unmerged
\* list; merged is the list of merge_head, kept the unmerged list as far as
\* it has been passed
RECURSIVE merge_matching_from(_, _, _, _, _)
merge_matching_from(files, unmerged_head, i, merged, kept) ==
    IF i > Len(unmerged_head) THEN [merged |-> merged, unmerged |-> kept]
    ELSE LET unmerged == unmerged_head[i]
             f == files[unmerged.file]
             ver == rcs_file_find_version(files[merged[1].file],
                                          merged[1].newrev)
             patch == rcs_file_find_patch(files[merged[1].file],
                                          merged[1].newrev)
             upd_ver == rcs_file_find_version(f, unmerged.newrev)
             upd_patch == rcs_file_find_patch(f, unmerged.newrev)
         IN  IF /\ ~unmerged.projrev_update
                /\ ~ChangesFile(merged, unmerged.file)
                /\ ~ChangesFile(kept, unmerged.file)
                /\ rcs_number_compare(unmerged.newrev, unmerged.oldrev) >= 0
                /\ ~upd_patch.missing
                /\ strcasecmp(upd_ver.author, ver.author) = 0
                /\ upd_patch.log = patch.log
             THEN merge_matching_from(files, unmerged_head, i + 1,
                      Append(merged, unmerged), kept)
             ELSE merge_matching_from(files, unmerged_head, i + 1,
                      merged, Append(kept, unmerged))

\* merge_matching_updates: the unmerged updates that share the author and
\* the log of merge_head join its list
merge_matching_updates(files, merge_head, unmerged_head) ==
    IF rcs_file_find_patch(files[merge_head.file], merge_head.newrev).missing
    THEN [merged |-> <<merge_head>>, unmerged |-> unmerged_head]
    ELSE merge_matching_from(files, unmerged_head, 1, <<merge_head>>, <<>>)

\* the newest date of the file revisions of a list of updates, from 0
RECURSIVE newest_date(_, _, _, _)
newest_date(files, updates, i, date) ==
    IF i > Len(updates) THEN date
    ELSE newest_date(files, updates, i + 1,
             Max(date, rcs_file_find_version(files[updates[i].file],
                                             updates[i].newrev).date))

\* mutant: a reverted revision is merged like any other update
RECURSIVE merge_updates_reverts_merged(_, _, _, _)
merge_updates_reverts_merged(files, update_list, cp_date, pj_author) ==
    IF update_list = <<>> THEN <<>>
    ELSE LET update == Head(update_list)
             mm == merge_matching_updates(files, update, Tail(update_list))
             ver == rcs_file_find_version(files[update.file], update.newrev)
         IN  <<[committer |-> author_map(ver.author),
                date |-> newest_date(files, mm.merged, 1, 0),
                changes |-> [NoChanges EXCEPT !.updates =
                                change_list_sort_by_name(mm.merged)]]>>
                 \o merge_updates_reverts_merged(files, mm.unmerged, cp_date,
                                                 pj_author)

\* merge_updates: updates with the same author and revision comment batched
\* into one commit; pj_author is the author of project revision
\* pj_revnum_cur
RECURSIVE merge_updates(_, _, _, _)
merge_updates(files, update_list, cp_date, pj_author) ==
    IF update_list = <<>> THEN <<>>
    ELSE LET update == Head(update_list)
             rest == Tail(update_list)
             pm == merge_projrev_updates(update, rest)
             mm == merge_matching_updates(files, update, rest)
             ver == rcs_file_find_version(files[update.file], update.newrev)
         IN  IF update.projrev_update
             THEN <<[committer |-> author_map(pj_author), date |-> cp_date,
                     changes |-> [NoChanges EXCEPT !.updates = pm.merged]]>>
                      \o merge_updates(files, pm.unmerged, cp_date, pj_author)
             ELSE IF rcs_number_compare(update.newrev, update.oldrev) < 0
             THEN <<[committer |-> unknown_author,
                     date |-> newest_date(files, <<update>>, 1, 0),
                     changes |-> [NoChanges EXCEPT !.updates = <<update>>]]>>
                      \o merge_updates(files, rest, cp_date, pj_author)
             ELSE <<[committer |-> author_map(ver.author),
                     date |-> newest_date(files, mm.merged, 1, 0),
                     changes |-> [NoChanges EXCEPT !.updates =
                                     change_list_sort_by_name(mm.merged)]]>>
                      \o merge_updates(files, mm.unmerged, cp_date, pj_author)

\* mutant: the delete commit holds the first deletion only
merge_deletes_first_only(deletes, cp_date) ==
    IF deletes = <<>> THEN <<>>
    ELSE <<[committer |-> unknown_author, date |-> cp_date,
            changes |-> [NoChanges EXCEPT !.deletes = <<Head(deletes)>>]]>>

\* merge_deletes: all deletions in a single commit
merge_deletes(deletes, cp_date) ==
    IF deletes = <<>> THEN <<>>
    ELSE <<[committer |-> unknown_author, date |-> cp_date,
            changes |-> [NoChanges EXCEPT !.deletes = deletes]]>>

\* mutant: the delete commit goes before the add commits
merge_changeset_deletes_first(files, changes, cp_date, pj_author) ==
    merge_renames(changes.renames, cp_date)
        \o merge_deletes(changes.deletes, cp_date)
        \o merge_adds(files, changes.adds, cp_date)
        \o merge_updates(files, changes.updates, cp_date, pj_author)

\* merge_changeset_into_commits
merge_changeset_into_commits(files, changes, cp_date, pj_author) ==
    merge_renames(changes.renames, cp_date)
        \o merge_adds(files, changes.adds, cp_date)
        \o merge_updates(files, changes.updates, cp_date, pj_author)
        \o merge_deletes(changes.deletes, cp_date)

(***************************************************************************)
(* Blobs and commits: src/export.c.  The blob exporter works on a record   *)
(* [files, counter, marks]: the file table, blob_mark_counter and the      *)
(* marks of the blob records written.                                      *)
(***************************************************************************)

\* ver->blob_mark = mark for the version of file numbered revnum
SetBlobMark(file, revnum, mark) ==
    [file EXCEPT !.versions =
        [i \in 1..Len(file.versions) |->
            IF rcs_number_equal(file.versions[i].number, revnum)
            THEN [file.versions[i] EXCEPT !.blob_mark = mark]
            ELSE file.versions[i]]]

\* export_blob: a blob record with the next mark
export_blob(ex) ==
    [ex EXCEPT !.counter = @ + 1, !.marks = @ \cup {ex.counter + 1}]

\* export_revision_blob, the callback of the text walker
export_revision_blob(ex, f, call) ==
    LET e == export_blob(ex)
    IN  [e EXCEPT !.files[f] =
            IF call.other THEN [@ EXCEPT !.other_blob_mark = e.counter]
            ELSE SetBlobMark(@, call.rev, e.counter)]

\* export_binary_revision_blob, the callback of the binary walker
export_binary_revision_blob(ex, f, call) ==
    LET e == export_blob(ex)
        marked == IF ~e.files[f].dummy /\ ~call.other
                  THEN SetBlobMark(e.files[f], call.rev, e.counter)
                  ELSE e.files[f]
    IN  [e EXCEPT !.files[f] =
            IF call.other THEN [marked EXCEPT !.other_blob_mark = e.counter]
            ELSE marked]

\* apply_patches_and_emit of rcs-binary.c after the callback for revision
\* rev: the head revision stands in for a missing project directory copy
substitute_other_blob_mark(ex, f, rev) ==
    LET file == ex.files[f]
    IN  IF /\ file.has_member_type_other
           /\ file.other_blob_mark = 0
           /\ rcs_number_equal(rev, file.head)
        THEN [ex EXCEPT !.files[f].other_blob_mark =
                 rcs_file_find_version(file, rev).blob_mark]
        ELSE ex

\* rcs_file_read_all_revisions with export_revision_blob, from the i-th
\* callback
RECURSIVE rcs_file_read_all_revisions(_, _, _, _)
rcs_file_read_all_revisions(ex, f, calls, i) ==
    IF i > Len(calls) THEN ex
    ELSE rcs_file_read_all_revisions(export_revision_blob(ex, f, calls[i]),
                                     f, calls, i + 1)

\* rcs_binary_file_read_all_revisions with export_binary_revision_blob, from
\* the i-th callback
RECURSIVE rcs_binary_file_read_all_revisions(_, _, _, _)
rcs_binary_file_read_all_revisions(ex, f, calls, i) ==
    IF i > Len(calls) THEN ex
    ELSE LET e == export_binary_revision_blob(ex, f, calls[i])
         IN  rcs_binary_file_read_all_revisions(
                 IF calls[i].other THEN e
                 ELSE substitute_other_blob_mark(e, f, calls[i].rev),
                 f, calls, i + 1)

\* the loops of export_blobs over a list of files, from the i-th
RECURSIVE export_blobs_from(_, _, _)
export_blobs_from(ex, list, i) ==
    IF i > Len(list) THEN ex
    ELSE LET f == list[i]
             file == ex.files[f]
         IN  export_blobs_from(
                 IF file.binary
                 THEN rcs_binary_file_read_all_revisions(
                          ex, f, binary_read_all(file), 1)
                 ELSE rcs_file_read_all_revisions(
                          ex, f, text_read_all(file), 1),
                 list, i + 1)

\* export_blobs: the files, then the dummy files
export_blobs(ex, files_list, dummy_files) ==
    export_blobs_from(export_blobs_from(ex, files_list, 1), dummy_files, 1)

\* one line of a commit: cmd is "R", "M" or "D"; file and rev tell which
\* change wrote it
OutLine(cmd, mark, path, oldpath, c) ==
    [cmd |-> cmd, mark |-> mark, path |-> path, oldpath |-> oldpath,
     file |-> c.file, oldrev |-> c.oldrev, rev |-> c.newrev,
     other |-> c.member_type_other]

export_filerenames(renames) ==
    [k \in 1..Len(renames) |->
        OutLine("R", 0, renames[k].canonical_name,
                renames[k].old_canonical_name, renames[k])]

\* whether export_filemodifies ends in its fatal error
filemodifies_fatal(files, mods) ==
    \E k \in 1..Len(mods) :
        files[mods[k].file].dummy /\ ~mods[k].member_type_other

\* export_filemodifies: the M lines of added or updated files
export_filemodifies(files, mods) ==
    [k \in 1..Len(mods) |->
        LET m == mods[k]
            file == files[m.file]
        IN  OutLine("M",
                IF file.dummy THEN file.other_blob_mark
                ELSE IF m.member_type_other THEN file.other_blob_mark
                ELSE rcs_file_find_version(file, m.newrev).blob_mark,
                m.canonical_name, <<>>, m)]

export_deletes(deletes) ==
    [k \in 1..Len(deletes) |->
        OutLine("D", 0, deletes[k].canonical_name, <<>>, deletes[k])]

\* export_commit: renames, adds, updates, deletes
export_commit(files, commit) ==
    export_filerenames(commit.changes.renames)
        \o export_filemodifies(files, commit.changes.adds)
        \o export_filemodifies(files, commit.changes.updates)
        \o export_deletes(commit.changes.deletes)

\* the loop of export_project_revision_changes over the commits, from the
\* i-th
RECURSIVE export_commits(_, _, _)
export_commits(files, commits, i) ==
    IF i > Len(commits) THEN <<>>
    ELSE export_commit(files, commits[i])
             \o export_commits(files, commits, i + 1)

\* whether some commit makes export_filemodifies end in its fatal error
commits_fatal(files, commits) ==
    \E i \in 1..Len(commits) :
        \/ filemodifies_fatal(files, commits[i].changes.adds)
        \/ filemodifies_fatal(files, commits[i].changes.updates)

(***************************************************************************)
(* Project revisions: src/project.c.                                       *)
(***************************************************************************)

\* one struct rcs_file_revision; ver is never assigned
\* a manifest entry whose version pointer is set, to a version with
\* $ProjectRevision$
Frev_resolved(file, rev, name, other) ==
    [file |-> file, rev |-> rev, canonical_name |-> name,
     member_type_other |-> other,
     ver |-> [number |-> rev, kw_projrev |-> TRUE]]

Frev(file, rev, name, other) ==
    [file |-> file, rev |-> rev, canonical_name |-> name,
     member_type_other |-> other, ver |-> NoVersion]

\* the loop of fix_directory_capitalization over the ff after f for the
\* directories dirs of f, from (j, k): the paths of the later entries take
\* the capitalization of the first appearance of a directory
RECURSIVE fix_later(_, _, _, _)
fix_later(frevs, dirs, j, k) ==
    IF j > Len(frevs) THEN frevs
    ELSE IF k > Len(dirs) THEN fix_later(frevs, dirs, j + 1, 1)
    ELSE IF strncasecmp(frevs[j].canonical_name, dirs[k].path,
                        dirs[k].len) = 0
         THEN fix_later(
                  [frevs EXCEPT ![j].canonical_name =
                      MemcpyOver(@, SubSeq(dirs[k].path, 1, dirs[k].len))],
                  dirs, j, k + 1)
         ELSE fix_later(frevs, dirs, j, k + 1)

\* the outer loop of fix_directory_capitalization from entry i
RECURSIVE fix_from(_, _, _)
fix_from(frevs, i, adjusted_dirs) ==
    IF i > Len(frevs) THEN frevs
    ELSE LET dirs == dir_list_remove_duplicates(
                         dir_list_from_path(frevs[i].canonical_name),
                         adjusted_dirs)
         IN  fix_from(fix_later(frevs, dirs, i + 1, 1), i + 1,
                      adjusted_dirs \o dirs)

fix_directory_capitalization(frevs) == fix_from(frevs, 1, <<>>)

\* mark_checkpointed_revisions for the entries of frevs from the i-th
RECURSIVE mark_checkpointed_revisions(_, _, _)
mark_checkpointed_revisions(files, frevs, i) ==
    IF i > Len(frevs) THEN files
    ELSE LET f == frevs[i].file
         IN  mark_checkpointed_revisions(
                 IF files[f].dummy THEN files
                 ELSE [files EXCEPT ![f].versions =
                          [n \in 1..Len(@) |->
                              IF rcs_number_equal(@[n].number, frevs[i].rev)
                              THEN [@[n] EXCEPT !.checkpointed = TRUE]
                              ELSE @[n]]],
                 frevs, i + 1)

\* project_read_checkpointed_revisions: every checkpointed project revision
\* marks its file revisions (the tip does not)
RECURSIVE project_read_checkpointed_revisions(_, _, _)
project_read_checkpointed_revisions(files, pjlist, k) ==
    IF k > Len(pjlist) THEN files
    ELSE project_read_checkpointed_revisions(
             IF pjlist[k].tip THEN files
             ELSE mark_checkpointed_revisions(files, pjlist[k].frevs, 1),
             pjlist, k + 1)

\* project_revision_read_files sets has_member_type_other of every file
\* that some project revision lists with member type "other"
read_member_types(files, pjlist) ==
    [f \in DOMAIN files |->
        [files[f] EXCEPT !.has_member_type_other =
            \E k \in 1..Len(pjlist) : \E i \in 1..Len(pjlist[k].frevs) :
                /\ pjlist[k].frevs[i].file = f
                /\ pjlist[k].frevs[i].member_type_other]]

(***************************************************************************)
(* Specification SpecExport: export() over a bounded project.  The project *)
(* has the text file "t" (path s/t, trunk 1.1 .. 1.MaxTrunk), the binary   *)
(* file "b" (path b; 1.1, 1.2 and the branch revision 1.1.1.1) and the     *)
(* file "d" (path s/d) that has no RCS master.  Project revision k is of   *)
(* date 20 * k.                                                            *)
(***************************************************************************)
NoLog == "(null)"

DateProfiles == {"spread", "early", "reversed"}

AuthorProfiles == {"same", "case", "alt"}

LogProfiles == {"same", "dup", "alt", "missing"}

\* the date, author and patch of revision 1.i of "t"
TDate(cfg, i) ==
    CASE cfg.dates = "spread" -> 20 * i - 10
      [] cfg.dates = "early" -> i
      [] OTHER -> 20 * (MaxTrunk + 1 - i) - 10

TAuthor(cfg, i) ==
    CASE cfg.authors = "same" -> <<65>>
      [] cfg.authors = "case" -> IF i % 2 = 1 THEN <<65>> ELSE <<97>>
      [] OTHER -> IF i % 2 = 1 THEN <<65>> ELSE <<66>>

TPatch(cfg, i) ==
    [number |-> <<1, i>>,
     log |-> CASE cfg.logs = "dup" /\ i = 2 -> "Duplicate revision\n"
               [] cfg.logs = "alt" /\ i % 2 = 0 -> "m"
               [] cfg.logs = "missing" /\ i = 1 -> NoLog
               [] OTHER -> "l",
     missing |-> cfg.logs = "missing" /\ i = 1]

\* one struct rcs_version
Version(number, parent, branches, date, author) ==
    [number |-> number, parent |-> parent, branches |-> branches,
     date |-> date, author |-> author, checkpointed |-> FALSE,
     blob_mark |-> 0]

TFile(cfg) ==
    [name |-> <<115, 47, 116>>, dummy |-> FALSE, binary |-> FALSE,
     head |-> <<1, MaxTrunk>>,
     versions |-> [k \in 1..MaxTrunk |->
         LET i == MaxTrunk + 1 - k
         IN  Version(<<1, i>>, IF i > 1 THEN <<1, i - 1>> ELSE <<>>, <<>>,
                     TDate(cfg, i), TAuthor(cfg, i))],
     patches |-> [k \in 1..MaxTrunk |-> TPatch(cfg, MaxTrunk + 1 - k)],
     has_member_type_other |-> FALSE, in_projdir |-> FALSE,
     other_blob_mark |-> 0]

\* the date of the revisions 1.2, 1.1 and 1.1.1.1 of "b"
BDates(cfg) ==
    CASE cfg.dates = "spread" -> <<35, 15, 25>>
      [] cfg.dates = "early" -> <<4, 2, 3>>
      [] OTHER -> <<15, 35, 25>>

BAuthor(cfg) ==
    CASE cfg.authors = "same" -> <<65>>
      [] cfg.authors = "case" -> <<97>>
      [] OTHER -> <<66>>

BLog(cfg, branch) ==
    CASE cfg.logs = "dup" /\ branch -> "Duplicate revision\n"
      [] cfg.logs = "alt" -> "m"
      [] OTHER -> "l"

BFile(cfg) ==
    [name |-> <<98>>, dummy |-> FALSE, binary |-> TRUE, head |-> <<1, 2>>,
     versions |->
         <<Version(<<1, 2>>, <<1, 1>>, <<>>, BDates(cfg)[1], BAuthor(cfg)),
           Version(<<1, 1>>, <<>>, <<<<1, 1, 1, 1>>>>, BDates(cfg)[2],
                   BAuthor(cfg)),
           Version(<<1, 1, 1, 1>>, <<>>, <<>>, BDates(cfg)[3],
                   BAuthor(cfg))>>,
     patches |->
         <<[number |-> <<1, 2>>, log |-> BLog(cfg, FALSE), missing |-> FALSE],
           [number |-> <<1, 1>>, log |-> BLog(cfg, FALSE), missing |-> FALSE],
           [number |-> <<1, 1, 1, 1>>, log |-> BLog(cfg, TRUE),
            missing |-> FALSE]>>,
     has_member_type_other |-> FALSE, in_projdir |-> cfg.b_in_projdir,
     other_blob_mark |-> 0]

\* rcs_file_dummy_find_or_add: a binary file with head 1.1 and no versions
DFile(cfg) ==
    [name |-> <<115, 47, 100>>, dummy |-> TRUE, binary |-> TRUE,
     head |-> <<1, 1>>, versions |-> <<>>, patches |-> <<>>,
     has_member_type_other |-> FALSE, in_projdir |-> cfg.d_in_projdir,
     other_blob_mark |-> 0]

\* the file table as import and project.pj parsing leave it
ImportedFiles(cfg, pjlist) ==
    project_read_checkpointed_revisions(
        read_member_types([f \in {"t", "b", "d"} |->
                              CASE f = "t" -> TFile(cfg)
                                [] f = "b" -> BFile(cfg)
                                [] OTHER -> DFile(cfg)],
                          pjlist),
        pjlist, 1)

\* the ways a project revision lists "t": not, with member type "a" at
\* revision 1.i under one of names, or with member type "f" (revision 1.1)
TEntries(revs, names) ==
    {<<>>, <<Frev("t", <<1, 1>>, <<115, 47, 116>>, TRUE)>>}
        \cup {<<Frev("t", <<1, i>>, n, FALSE)>> : i \in revs, n \in names}

\* the ways it lists "b": member type "f" is listed at the head revision
BEntries(revs) ==
    {<<>>, <<Frev("b", <<1, 2>>, <<98>>, TRUE)>>}
        \cup {<<Frev("b", r, <<98>>, FALSE)>> : r \in revs}

\* the ways it lists "d", which has no master: with member type "f" only
DEntries(names) ==
    {<<>>} \cup {<<Frev("d", <<1, 1>>, n, TRUE)>> : n \in names}

\* project_revision_read_files: the file lists of a project revision
Manifests(ts, bs, ds) ==
    {fix_directory_capitalization(t \o b \o d) : t \in ts, b \in bs, d \in ds}

PjRev(frevs, k, tip) ==
    [frevs |-> frevs, date |-> 20 * k, author |-> <<80>>, tip |-> tip]

BaseConfig ==
    [dates |-> "spread", authors |-> "same", logs |-> "same",
     b_in_projdir |-> FALSE, d_in_projdir |-> FALSE]

\* the state export() starts from: the files imported, the project
\* revisions of pjlist read
ExportStart(cfg, pjlist) ==
    /\ pjs = pjlist
    /\ rcs_files = ImportedFiles(cfg, pjlist)
    /\ epc = "blobs"
    /\ pjrev = 0
    /\ blob_mark_counter = 0
    /\ blob_marks = {}
    /\ last_changes = <<>>
    /\ last_commits = <<>>
    /\ out = <<>>
    /\ NotExportIdle

\* two checkpoints whose paths vary in capitalization
NameManifests ==
    Manifests({e \in TEntries({1, MaxTrunk},
                              {<<115, 47, 116>>, <<83, 47, 116>>,
                               <<83, 47, 84>>}) :
                   e = <<>> \/ ~e[1].member_type_other},
              {<<>>, <<Frev("b", <<1, 2>>, <<98>>, FALSE)>>},
              DEntries({<<115, 47, 100>>}))

NameInit ==
    \E m1 \in NameManifests, m2 \in NameManifests :
        ExportStart(BaseConfig, <<PjRev(m1, 1, FALSE), PjRev(m2, 2, FALSE)>>)

\* two checkpoints that list "t" and "b" at any revision or member type
PairManifests ==
    Manifests(TEntries(1..MaxTrunk, {<<115, 47, 116>>}),
              BEntries({<<1, 1>>, <<1, 2>>, <<1, 1, 1, 1>>}),
              {<<>>})

PairInit ==
    \E m1 \in PairManifests, m2 \in PairManifests :
        ExportStart(BaseConfig, <<PjRev(m1, 1, FALSE), PjRev(m2, 2, FALSE)>>)

\* a first checkpoint that is empty or lists both files at 1.1, a second
\* that lists any revisions, of files whose dates, authors or logs vary
ProfileConfigs ==
    {[BaseConfig EXCEPT !.dates = p] : p \in DateProfiles}
        \cup {[BaseConfig EXCEPT !.authors = p] : p \in AuthorProfiles}
        \cup {[BaseConfig EXCEPT !.logs = p] : p \in LogProfiles}

ProfileInit ==
    \E cfg \in ProfileConfigs \ {BaseConfig} :
        \E m1 \in {<<>>, <<Frev("t", <<1, 1>>, <<115, 47, 116>>, FALSE),
                          Frev("b", <<1, 1>>, <<98>>, FALSE)>>} :
            \E m2 \in {m \in PairManifests :
                          \A i \in 1..Len(m) : ~m[i].member_type_other} :
                ExportStart(cfg,
                            <<PjRev(m1, 1, FALSE), PjRev(m2, 2, FALSE)>>)

\* two checkpoints and the tip, with a project directory that holds copies
\* of "b" and "d" or of neither
TipManifests ==
    {fix_directory_capitalization(t \o o) :
        t \in {e \in TEntries({1, MaxTrunk}, {<<115, 47, 116>>}) :
                  e = <<>> \/ ~e[1].member_type_other},
        o \in {<<>>, <<Frev("b", <<1, 2>>, <<98>>, TRUE),
                       Frev("d", <<1, 1>>, <<115, 47, 100>>, TRUE)>>}}

TipInit ==
    \E pd \in BOOLEAN :
        \E m1 \in TipManifests, m2 \in TipManifests, m3 \in TipManifests :
            ExportStart([BaseConfig EXCEPT !.b_in_projdir = pd,
                                           !.d_in_projdir = pd],
                        <<PjRev(m1, 1, FALSE), PjRev(m2, 2, FALSE),
                          PjRev(m3, 3, TRUE)>>)

ExportInit == NameInit \/ PairInit \/ ProfileInit \/ TipInit

\* export_blobs: a blob for every revision of every file; a dummy file is
\* on the dummy_files list once a project revision lists it
ExportBlobs ==
    /\ epc = "blobs"
    /\ LET ex == export_blobs(
                     [files |-> rcs_files, counter |-> blob_mark_counter,
                      marks |-> blob_marks],
                     <<"t", "b">>,
                     IF rcs_files["d"].has_member_type_other
                     THEN <<"d">> ELSE <<>>)
       IN  /\ rcs_files' = ex.files
           /\ blob_mark_counter' = ex.counter
           /\ blob_marks' = ex.marks
    /\ epc' = "changes"
    /\ UNCHANGED <<pjs, pjrev, last_changes, last_commits, out>>
    /\ UNCHANGED notExport

\* export_project_revision_changes for the project revision after pjrev,
\* a checkpoint or (last) the tip of the trunk: get_commit_list, then
\* export_commit for every commit
ExportRevisionChanges ==
    /\ epc = "changes"
    /\ LET old == IF pjrev = 0 THEN <<>> ELSE pjs[pjrev].frevs
           old_date == IF pjrev = 0 THEN 0 ELSE pjs[pjrev].date
           new == pjs[pjrev + 1]
           changes == changeset_build(rcs_files, old, old_date, new.frevs,
                                      new.date, FALSE, new.date)
           commits == merge_changeset_into_commits(rcs_files, changes,
                                                   new.date, new.author)
       IN  /\ last_changes' = changes
           /\ IF ~changes.ok
              THEN epc' = "hung" /\ UNCHANGED <<last_commits, out>>
              ELSE /\ last_commits' = commits
                   /\ IF commits_fatal(rcs_files, commits)
                      THEN epc' = "fatal" /\ UNCHANGED out
                      ELSE /\ out' = out \o export_commits(rcs_files,
                                                           commits, 1)
                           /\ epc' = IF pjrev + 1 = Len(pjs) THEN "done"
                                     ELSE "changes"
    /\ pjrev' = pjrev + 1
    /\ UNCHANGED <<rcs_files, pjs, blob_mark_counter, blob_marks>>
    /\ UNCHANGED notExport

ExportNext == ExportBlobs \/ ExportRevisionChanges

SpecExport == ExportInit /\ [][ExportNext]_vars

(***************************************************************************)
(* Properties of the changeset of the last exported project revision.      *)
(***************************************************************************)

\* a project revision has been exported
Stepped == epc \in {"changes", "done"} /\ pjrev >= 1

\* the file lists the last step compared
OldFrevs == IF pjrev <= 1 THEN <<>> ELSE pjs[pjrev - 1].frevs

NewFrevs == pjs[pjrev].frevs

\* the files of a list of file revisions or of changes
FilesOf(list) == {list[i].file : i \in 1..Len(list)}

\* the entry of file f in a list of file revisions
EntryOf(frevs, f) == frevs[CHOOSE i \in 1..Len(frevs) : frevs[i].file = f]

\* whether file f is listed by old and new with another revision or
\* another member type
PairDiffers(f) ==
    \/ EntryOf(OldFrevs, f).rev # EntryOf(NewFrevs, f).rev
    \/ EntryOf(OldFrevs, f).member_type_other
           # EntryOf(NewFrevs, f).member_type_other

\* C4: before non-existent revisions are dropped, changeset_build yields
\* adds for exactly the files of new that old lacks, deletes for exactly the
\* files of old that new lacks, and a regular update for a file of both
\* exactly if its (rev, member_type_other) pair differs; no file is both
\* added and deleted, and a file unchanged in both gets no change
C4_ChangesetMatchesManifests ==
    Stepped =>
        LET bd == last_changes.before_drop
            regular == SelectSeq(bd.updates, LAMBDA u : ~u.projrev_update)
            both == FilesOf(OldFrevs) \cap FilesOf(NewFrevs)
        IN  /\ FilesOf(bd.adds) = FilesOf(NewFrevs) \ FilesOf(OldFrevs)
            /\ Len(bd.adds) = Cardinality(FilesOf(bd.adds))
            /\ FilesOf(bd.deletes) = FilesOf(OldFrevs) \ FilesOf(NewFrevs)
            /\ Len(bd.deletes) = Cardinality(FilesOf(bd.deletes))
            /\ \A f \in both : (f \in FilesOf(regular)) <=> PairDiffers(f)
            /\ FilesOf(bd.adds) \cap FilesOf(bd.deletes) = {}
            /\ \A f \in both :
                  ~PairDiffers(f) =>
                      f \notin FilesOf(bd.adds) \cup FilesOf(bd.updates)
                                   \cup FilesOf(bd.deletes)

\* witness of C4: of three files one is updated, one added and one deleted
\* between the two checkpoints
C4_Witness ==
    /\ Stepped /\ pjrev = 2
    /\ FilesOf(OldFrevs) = {"t", "d"}
    /\ FilesOf(NewFrevs) = {"t", "b"}
    /\ FilesOf(last_changes.before_drop.adds) = {"b"}
    /\ FilesOf(last_changes.before_drop.deletes) = {"d"}
    /\ FilesOf(last_changes.before_drop.updates) = {"t"}

\* the revisions rcs_number_decrement passes from rev down to oldrev, both
\* left out
RECURSIVE DecrementPath(_, _)
DecrementPath(oldrev, rev) ==
    LET prev == rcs_number_decrement(rev)
    IN  IF rcs_number_decrement_null(rev) THEN {}
        ELSE IF rcs_number_compare(oldrev, prev) >= 0 THEN {}
        ELSE {prev} \cup DecrementPath(oldrev, prev)

\* the <<oldrev, newrev>> pairs of the chain through the revisions revs
ChainPairs(revs) ==
    {<<a, b>> \in revs \X revs :
        /\ rcs_number_compare(a, b) < 0
        /\ ~\E c \in revs : /\ rcs_number_compare(a, c) < 0
                            /\ rcs_number_compare(c, b) < 0}

\* the files that old and new list at strictly advancing revisions
Advanced ==
    {f \in FilesOf(OldFrevs) \cap FilesOf(NewFrevs) :
        rcs_number_compare(EntryOf(OldFrevs, f).rev,
                           EntryOf(NewFrevs, f).rev) < 0}

\* the revisions of file f between oldrev and newrev that get an update of
\* their own: those whose patch log is not "Duplicate revision\n"
Intermediates(f, oldrev, newrev) ==
    {r \in DecrementPath(oldrev, newrev) :
        /\ rcs_file_find_version(rcs_files[f], r) # NoVersion
        /\ rcs_file_find_patch(rcs_files[f], r).log # "Duplicate revision\n"}

\* C5: after adjust_updates the updates of a file whose revision strictly
\* advanced form one contiguous chain from the original oldrev to the
\* original newrev, with one update per intermediate revision on the
\* decrement path, except revisions whose log is "Duplicate revision\n"
C5_UpdateChain ==
    Stepped =>
        \A f \in Advanced :
            LET oldrev == EntryOf(OldFrevs, f).rev
                newrev == EntryOf(NewFrevs, f).rev
                of_f == SelectSeq(last_changes.before_drop.updates,
                                  LAMBDA u : u.file = f)
            IN  /\ {<<of_f[k].oldrev, of_f[k].newrev>> : k \in 1..Len(of_f)}
                       = ChainPairs({oldrev, newrev}
                                        \cup Intermediates(f, oldrev, newrev))
                /\ Len(of_f) = 1 + Cardinality(Intermediates(f, oldrev,
                                                             newrev))

\* witness of C5: "t" advances from 1.1 to 1.MaxTrunk past the duplicate
\* revision 1.2, which no update names
C5_Witness ==
    /\ Stepped /\ pjrev = 2
    /\ "t" \in Advanced
    /\ EntryOf(OldFrevs, "t").rev = <<1, 1>>
    /\ EntryOf(NewFrevs, "t").rev = <<1, MaxTrunk>>
    /\ rcs_file_find_patch(rcs_files["t"], <<1, 2>>).log
           = "Duplicate revision\n"
    /\ \E k \in 1..Len(last_changes.before_drop.updates) :
          LET u == last_changes.before_drop.updates[k]
          IN  u.file = "t" /\ u.oldrev = <<1, 1>> /\ u.newrev[2] > 2
    /\ \A k \in 1..Len(last_changes.before_drop.updates) :
          LET u == last_changes.before_drop.updates[k]
          IN  u.oldrev # <<1, 2>> /\ u.newrev # <<1, 2>>

(***************************************************************************)
(* Properties of the commits of the last exported project revision.        *)
(***************************************************************************)

\* the kinds of change a commit carries: 1 directory renames, 2 file
\* renames, 3 adds, 4 updates, 5 deletes
KindsOf(commit) ==
    {1 : r \in {k \in 1..Len(commit.changes.renames) :
                    commit.changes.renames[k].file = NoFile}}
        \cup {2 : r \in {k \in 1..Len(commit.changes.renames) :
                            commit.changes.renames[k].file # NoFile}}
        \cup {3 : a \in 1..Len(commit.changes.adds)}
        \cup {4 : u \in 1..Len(commit.changes.updates)}
        \cup {5 : d \in 1..Len(commit.changes.deletes)}

\* C2: merge_changeset_into_commits returns the directory-rename commit,
\* then the file-rename commit, then the add commits, then the update
\* commits, then the delete commit: every commit is of one kind, no commit
\* of a later kind precedes one of an earlier kind, and the rename and
\* delete commits are single
C2_CommitOrder ==
    Stepped =>
        /\ \A i \in 1..Len(last_commits) :
              Cardinality(KindsOf(last_commits[i])) = 1
        /\ \A i \in 1..Len(last_commits) : \A j \in 1..Len(last_commits) :
              i < j =>
                  \A ki \in KindsOf(last_commits[i]) :
                      \A kj \in KindsOf(last_commits[j]) :
                          /\ ki <= kj
                          /\ ki = kj => ki \in {3, 4}

\* witness of C2: one step yields a commit of each of the five kinds
C2_Witness ==
    /\ Stepped
    /\ UNION {KindsOf(last_commits[i]) : i \in 1..Len(last_commits)}
           = {1, 2, 3, 4, 5}
    /\ Len(last_commits) >= 6

\* the update commits of the last step
UpdateCommits == SelectSeq(last_commits, LAMBDA c : c.changes.updates # <<>>)

\* C3: no update commit holds two changes of one file, and the commits that
\* carry the updates of one file come in ascending newrev order
C3_UpdatesPerFileAscending ==
    Stepped =>
        /\ \A i \in 1..Len(UpdateCommits) :
              LET u == UpdateCommits[i].changes.updates
              IN  Len(u) = Cardinality(FilesOf(u))
        /\ \A i \in 1..Len(UpdateCommits) : \A j \in 1..Len(UpdateCommits) :
              i < j =>
                  LET ui == UpdateCommits[i].changes.updates
                      uj == UpdateCommits[j].changes.updates
                  IN  \A a \in 1..Len(ui) : \A b \in 1..Len(uj) :
                          ui[a].file = uj[b].file =>
                              rcs_number_compare(ui[a].newrev,
                                                 uj[b].newrev) < 0

\* witness of C3: the update list holds two updates of "t" and one of "b";
\* a first commit carries updates of both files, a later one the later
\* update of "t"
C3_Witness ==
    /\ Stepped
    /\ Len(last_changes.updates) >= 3
    /\ Len(UpdateCommits) >= 2
    /\ FilesOf(UpdateCommits[1].changes.updates) = {"t", "b"}
    /\ \E j \in 2..Len(UpdateCommits) :
          "t" \in FilesOf(UpdateCommits[j].changes.updates)

(***************************************************************************)
(* Properties of the exported stream.                                      *)
(***************************************************************************)

\* the M lines of the stream that set file f, in stream order
MLinesOf(f) == SelectSeq(out, LAMBDA l : l.cmd = "M" /\ l.file = f)

\* C1: every M line of the stream names a mark that an earlier blob
\* record assigned (the blobs are all written before the first commit)
C1_MarksAssigned ==
    \A i \in 1..Len(out) : out[i].cmd = "M" => out[i].mark \in blob_marks

\* the case of C1 that holds: an M line written for a change that is not of
\* member type "other" names an assigned mark
C1_ArchiveMarksAssigned ==
    \A i \in 1..Len(out) :
        out[i].cmd = "M" /\ ~out[i].other => out[i].mark \in blob_marks

\* the failing case of C1: the text file, listed with member type "other",
\* is written with the mark 0 that no blob record carries
C1_TextOtherUnmarked ==
    \E i \in 1..Len(out) :
        /\ out[i].cmd = "M"
        /\ out[i].file = "t"
        /\ out[i].other
        /\ out[i].mark = 0
        /\ 0 \notin blob_marks

SentBackward(l) ==
    \/ l.oldrev = <<>>
    \/ rcs_number_compare(l.rev, l.oldrev) < 0

MaxAdds == 3

FileIds == <<"f1", "f2", "f3", "f4", "f5">>

\* the authors "a", "A" and "b"
AddAuthors == {<<97>>, <<65>>, <<98>>}

AddKinds ==
    [dummy : {FALSE}, author : AddAuthors, missing : BOOLEAN,
     date : {10, 20}]
        \cup {[dummy |-> TRUE, author |-> <<>>, missing |-> FALSE,
               date |-> 0]}

\* the struct rcs_file of file k: path "a", "b", ...
AddFile(kind, k) ==
    [name |-> <<96 + k>>, dummy |-> kind.dummy, binary |-> kind.dummy,
     head |-> <<1, 1>>,
     versions |-> IF kind.dummy THEN <<>>
                  ELSE <<Version(<<1, 1>>, <<>>, <<>>, kind.date,
                                 kind.author)>>,
     patches |-> IF kind.dummy THEN <<>>
                 ELSE <<[number |-> <<1, 1>>,
                         log |-> IF kind.missing THEN NoLog ELSE "l",
                         missing |-> kind.missing]>>,
     has_member_type_other |-> kind.dummy, in_projdir |-> kind.dummy,
     other_blob_mark |-> IF kind.dummy THEN 1 ELSE 0]

AddFiles(kinds) ==
    [f \in {FileIds[k] : k \in 1..Len(kinds)} |->
        LET k == CHOOSE k \in 1..Len(kinds) : FileIds[k] = f
        IN  AddFile(kinds[k], k)]

\* the adds of the files as find_adds lists them
AddsOf(kinds) ==
    [k \in 1..Len(kinds) |->
        Change(FileIds[k], <<96 + k>>, <<>>, <<>>, <<1, 1>>,
               kinds[k].dummy, FALSE)]

AddsInit ==
    /\ \E kinds \in SeqsOf(AddKinds, 1, MaxAdds) :
          LET files == AddFiles(kinds)
          IN  uin = [files |-> files,
                     add_list |-> sort_changes(AddsOf(kinds),
                         compare_by_date_of(files, 0, AddsOf(kinds)))]
    /\ upc = "call"
    /\ uout = <<>>
    /\ NotUnitIdle

\* merge_adds(branch, add_list, cp_date)
MergeAdds ==
    /\ upc = "call"
    /\ uout' = merge_adds(uin.files, uin.add_list, 30)
    /\ upc' = "return"
    /\ UNCHANGED uin
    /\ UNCHANGED notUnit

AddsNext == MergeAdds

SpecAdds == AddsInit /\ [][AddsNext]_vars

\* the resolved version of the i-th add of the sorted list
AddVer(i) ==
    rcs_file_find_version(uin.files[uin.add_list[i].file],
                          uin.add_list[i].newrev)

AddDummy(i) == uin.files[uin.add_list[i].file].dummy

AddMissing(i) ==
    rcs_file_find_patch(uin.files[uin.add_list[i].file],
                        uin.add_list[i].newrev).missing

SameAuthor(i, j) ==
    /\ ~AddDummy(i) /\ ~AddDummy(j)
    /\ strcasecmp(AddVer(i).author, AddVer(j).author) = 0

\* the commits of uout that hold the i-th add of the sorted list
CommitsOfAdd(i) ==
    {c \in 1..Len(uout) :
        ChangesFile(uout[c].changes.adds, uin.add_list[i].file)}

\* an add of another author lies between the i-th and the j-th add
Separated(i, j) ==
    \E k \in (i + 1)..(j - 1) : ~AddDummy(k) /\ ~SameAuthor(i, k)

\* the statement of C11 as claimed: two adds of one author (letter case
\* aside) are in different commits only if an add of another author lies
\* between them in the sorted list
C11_SameAuthorSplitOnlyIfSeparated ==
    upc = "return" =>
        \A i \in 1..Len(uin.add_list) : \A j \in 1..Len(uin.add_list) :
            i < j /\ SameAuthor(i, j) /\ CommitsOfAdd(i) # CommitsOfAdd(j)
                => Separated(i, j)

\* C11 (amended): every add of a file that has versions is in exactly one
\* commit, and two adds of one author (letter case aside) are in different
\* commits only if an add of another author lies between them in the sorted
\* list or the patch of one of the two is missing
C11_SameAuthorSplitOnlyIfSeparatedOrMissing ==
    upc = "return" =>
        /\ \A i \in 1..Len(uin.add_list) :
              ~AddDummy(i) => Cardinality(CommitsOfAdd(i)) = 1
        /\ \A i \in 1..Len(uin.add_list) : \A j \in 1..Len(uin.add_list) :
              i < j /\ SameAuthor(i, j) /\ CommitsOfAdd(i) # CommitsOfAdd(j)
                  => Separated(i, j) \/ AddMissing(i) \/ AddMissing(j)

\* witness of C11: two adds of the authors "a" and "A" share a commit
\* although an add of "b" lies between them
C11_Witness ==
    /\ upc = "return"
    /\ \E i \in 1..Len(uin.add_list) : \E j \in 1..Len(uin.add_list) :
          /\ i < j /\ SameAuthor(i, j)
          /\ AddVer(i).author # AddVer(j).author
          /\ ~AddMissing(i) /\ ~AddMissing(j)
          /\ Separated(i, j)
          /\ CommitsOfAdd(i) = CommitsOfAdd(j)

(***************************************************************************)
(* Specification SpecBranchName: sanitize_branch_name (src/project.c) on a *)
(* raw MKSSI branch name, with parse_mkssi_branch_char and                 *)
(* sanitize_mkssi_branch_char (src/utils.c).                               *)
(***************************************************************************)
is_hex_digit(c) ==
    \/ c >= 48 /\ c <= 57
    \/ c >= 97 /\ c <= 102
    \/ c >= 65 /\ c <= 70

\* the value of one hexadecimal digit, as strtol(.., 16) reads it
HexValue(c) ==
    IF c >= 48 /\ c <= 57 THEN c - 48
    ELSE IF c >= 97 /\ c <= 102 THEN c - 87
    ELSE c - 55

\* isspace and isgraph of the C locale
isspace(c) == c = 32 \/ (c >= 9 /\ c <= 13)

isgraph(c) == c >= 33 /\ c <= 126

\* the characters \ * ? , : [ of badchars and its terminating NUL, which
\* strchr finds too
badchars == {92, 42, 63, 44, 58, 91, 0}

\* sanitize_mkssi_branch_char; -1 means skip the character
sanitize_mkssi_branch_char(c) ==
    IF isspace(c) THEN 95
    ELSE IF c \in badchars \/ ~isgraph(c) THEN -1
    ELSE c

\* parse_mkssi_branch_char for the string that starts at index i of str:
\* [len, ch]
parse_mkssi_branch_char(str, i) ==
    LET escaped == /\ CharAt(str, i) = 37
                   /\ is_hex_digit(CharAt(str, i + 1))
                   /\ is_hex_digit(CharAt(str, i + 2))
        num == 16 * HexValue(CharAt(str, i + 1))
                   + HexValue(CharAt(str, i + 2))
        decoded == escaped /\ num >= 0 /\ num <= 127
        ch == IF decoded THEN num ELSE CharAt(str, i)
        len == IF decoded THEN 3 ELSE 1
        ch2 == IF ch = 46 /\ CharAt(str, i + len) = 0 THEN 95 ELSE ch
    IN  [len |-> len, ch |-> sanitize_mkssi_branch_char(ch2)]

\* the loop of sanitize_branch_name from index sp; tp is what was written
RECURSIVE sanitize_from(_, _, _)
sanitize_from(branch_name, sp, tp) ==
    IF CharAt(branch_name, sp) = 0 THEN tp
    ELSE LET p == parse_mkssi_branch_char(branch_name, sp)
         IN  sanitize_from(branch_name, sp + p.len,
                           IF p.ch # -1 THEN Append(tp, p.ch) ELSE tp)

\* sanitize_branch_name: the name, or the fatal error of an empty name
sanitize_branch_name(branch_name) ==
    LET name == sanitize_from(branch_name, 1, <<>>)
    IN  [fatal |-> name = <<>>, branch_name |-> name]

MaxName == 4

\* the characters a * . space % 2 E 0 and the control character BEL
NameChars == {97, 42, 46, 32, 37, 50, 69, 48, 7}

BranchNameInit ==
    /\ uin \in SeqsOf(NameChars, 0, MaxName)
    /\ upc = "call"
    /\ uout = <<>>
    /\ NotUnitIdle

SanitizeBranchName ==
    /\ upc = "call"
    /\ LET r == sanitize_branch_name(uin)
       IN  IF r.fatal
           THEN upc' = "fatal" /\ UNCHANGED uout
           ELSE upc' = "return" /\ uout' = r.branch_name
    /\ UNCHANGED uin
    /\ UNCHANGED notUnit

BranchNameNext == SanitizeBranchName

SpecBranchName == BranchNameInit /\ [][BranchNameNext]_vars

\* every character of the sanitized name is graphable ASCII and none of
\* \ * ? , : [ (so none is whitespace)
NameCharsClean ==
    \A k \in 1..Len(uout) :
        isgraph(uout[k]) /\ uout[k] \notin badchars /\ ~isspace(uout[k])

\* C12: a branch name that sanitize_branch_name returns holds graphable
\* ASCII characters only, none of \ * ? , : [ and no whitespace, and does
\* not end with '.'
C12_SanitizedName ==
    upc = "return" => NameCharsClean /\ uout[Len(uout)] # 46

\* the part of C12 that holds: the characters of the name are clean, and
\* the name does not end with '.' when the raw name ends with the period
\* ('.' or its encoding %2E)
C12_CleanAndNoRawTrailingPeriod ==
    upc = "return" =>
        /\ NameCharsClean
        /\ uout[Len(uout)] = 46 =>
              /\ uin[Len(uin)] # 46
              /\ ~(Len(uin) >= 3 /\ SubSeq(uin, Len(uin) - 2, Len(uin))
                                       = <<37, 50, 69>>)

\* the failing case of C12: a period followed by dropped characters only
\* ends the sanitized name
C12_TrailingPeriodKept ==
    /\ upc = "return"
    /\ uin = <<97, 46, 42>>
    /\ uout = <<97, 46>>

(***************************************************************************)
(* Specification SpecBranches: project_revision_read_branches on a block   *)
(* of variant projects, one project_branch_add per step.  A struct         *)
(* mkssi_branch is [number, branch_name]; uin holds the lines of the block *)
(* as [number, raw] and trunk_branch (<<>>: not given).                    *)
(***************************************************************************)
\* mutant: a branch that is listed already is ignored whatever its number
project_branch_add_keep_first(branches, branch, trunk_branch) ==
    IF rcs_number_equal(branch.number, trunk_branch)
    THEN [fatal |-> TRUE, branches |-> branches]
    ELSE LET kept == branches
             listed == \E k \in 1..Len(branches) :
                          branches[k].branch_name = branch.branch_name
             before == {k \in 1..Len(kept) :
                           rcs_number_compare(kept[k].number,
                                              branch.number) >= 0}
                           \cup {Len(kept) + 1}
             at == CHOOSE k \in before : \A j \in before : k <= j
         IN  [fatal |-> FALSE,
              branches |->
                  IF listed THEN branches
                  ELSE SubSeq(kept, 1, at - 1) \o <<branch>>
                           \o SubSeq(kept, at, Len(kept))]

\* project_branch_add: found is the index of the first listed branch of
\* the same name; it is removed if its number is lower, else the new branch
\* is dropped; the new branch is linked before the first branch whose
\* number is not lower
project_branch_add(branches, branch, trunk_branch) ==
    IF rcs_number_equal(branch.number, trunk_branch)
    THEN [fatal |-> TRUE, branches |-> branches]
    ELSE LET same == {k \in 1..Len(branches) :
                         strcmp(branches[k].branch_name,
                                branch.branch_name) = 0}
             found == IF same = {} THEN 0
                      ELSE CHOOSE k \in same : \A j \in same : k <= j
             replace == found # 0 /\ rcs_number_compare(
                            branches[found].number, branch.number) < 0
             kept == IF replace
                     THEN SubSeq(branches, 1, found - 1)
                              \o SubSeq(branches, found + 1, Len(branches))
                     ELSE branches
             before == {k \in 1..Len(kept) :
                           rcs_number_compare(kept[k].number,
                                              branch.number) >= 0}
                           \cup {Len(kept) + 1}
             at == CHOOSE k \in before : \A j \in before : k <= j
         IN  [fatal |-> FALSE,
              branches |->
                  IF found # 0 /\ ~replace THEN branches
                  ELSE SubSeq(kept, 1, at - 1) \o <<branch>>
                           \o SubSeq(kept, at, Len(kept))]

\* parse_project_branch_line: the number and the sanitized name of a line
parse_project_branch_line(line) ==
    [number |-> line.number,
     branch_name |-> sanitize_branch_name(line.raw).branch_name]

MaxBranchLines == 3

\* the raw names "a ", "a_" and "b"
RawBranchNames == {<<97, 32>>, <<97, 95>>, <<98>>}

BranchNumbers == {<<1, 1>>, <<1, 2>>, <<1, 1, 1, 1>>}

BranchesInit ==
    /\ \E lines \in SeqsOf([number : BranchNumbers, raw : RawBranchNames],
                           1, MaxBranchLines) :
          \E trunk_branch \in {<<>>, <<1, 2>>} :
              uin = [lines |-> lines, trunk_branch |-> trunk_branch]
    /\ upc = "call"
    /\ uout = [branches |-> <<>>, read |-> 0]
    /\ NotUnitIdle

\* one round of the loop of project_revision_read_branches
ProjectBranchAdd ==
    /\ upc = "call"
    /\ LET line == uin.lines[uout.read + 1]
           r == project_branch_add(uout.branches,
                                   parse_project_branch_line(line),
                                   uin.trunk_branch)
       IN  IF r.fatal
           THEN upc' = "fatal" /\ UNCHANGED uout
           ELSE /\ uout' = [branches |-> r.branches,
                            read |-> uout.read + 1]
                /\ upc' = IF uout.read + 1 = Len(uin.lines) THEN "return"
                          ELSE "call"
    /\ UNCHANGED uin
    /\ UNCHANGED notUnit

BranchesNext == ProjectBranchAdd

SpecBranches == BranchesInit /\ [][BranchesNext]_vars

\* the branches of the lines read so far
BranchesRead ==
    [k \in 1..uout.read |-> parse_project_branch_line(uin.lines[k])]

\* the statement of C13 as claimed: the second of two lines whose
\* sanitized names are equal is never added; the run has aborted instead
C13_DuplicateNameAborts ==
    upc \in {"call", "return"} =>
        \A i \in 1..uout.read : \A j \in 1..uout.read :
            i < j => BranchesRead[i].branch_name # BranchesRead[j].branch_name

\* C13 (amended): a line whose sanitized name is listed already does not
\* abort the run: the list keeps one branch of every name read, with the
\* highest revision number read for that name, sorted by revision number;
\* the only fatal error of project_branch_add is a line whose revision
\* number is the trunk branch
C13_DuplicateNameKeepsHighest ==
    /\ upc \in {"call", "return"} =>
          /\ \A i \in 1..uout.read :
                \E k \in 1..Len(uout.branches) :
                    /\ uout.branches[k].branch_name
                           = BranchesRead[i].branch_name
                    /\ rcs_number_compare(uout.branches[k].number,
                                          BranchesRead[i].number) >= 0
          /\ \A k \in 1..Len(uout.branches) :
                \E i \in 1..uout.read : uout.branches[k] = BranchesRead[i]
          /\ \A k \in 1..Len(uout.branches) :
                \A l \in 1..Len(uout.branches) :
                    k < l =>
                        /\ uout.branches[k].branch_name
                               # uout.branches[l].branch_name
                        /\ rcs_number_compare(uout.branches[k].number,
                                              uout.branches[l].number) <= 0
    /\ upc = "fatal" =>
          uin.lines[uout.read + 1].number = uin.trunk_branch

\* witness of C13: the raw names "a " and "a_" were read with different
\* revision numbers, the higher one last, and the run goes on with one
\* branch "a_" of the higher number
C13_Witness ==
    /\ upc = "return"
    /\ \E i \in 1..uout.read : \E j \in 1..uout.read :
          /\ i < j
          /\ uin.lines[i].raw # uin.lines[j].raw
          /\ BranchesRead[i].branch_name = BranchesRead[j].branch_name
          /\ rcs_number_compare(BranchesRead[i].number,
                                BranchesRead[j].number) < 0
          /\ \E k \in 1..Len(uout.branches) :
                uout.branches[k] = BranchesRead[j]

(***************************************************************************)
(* Specification SpecRenames: changeset_build on two project revisions     *)
(* that list the same files at the same revisions and spell directory      *)
(* names in different letter case.  File k of FileIds lies k directories   *)
(* deep: a/x, a/b/x, a/b/c/x; a spelling says for every directory level    *)
(* whether its name is in upper case.                                      *)
(***************************************************************************)
MaxDepth == 3

Spellings == [1..MaxDepth -> BOOLEAN]

\* the path of the directory at level k (no trailing '/'), the parents
\* down to level from_new + 1 in spelling old, the others in spelling new
RECURSIVE DirPath(_, _, _, _)
DirPath(k, old, new, from_new) ==
    IF k = 0 THEN <<>>
    ELSE LET up == IF k > from_new THEN old[k] ELSE new[k]
             name == <<(IF up THEN 64 ELSE 96) + k>>
         IN  IF k = 1 THEN name
             ELSE DirPath(k - 1, old, new, from_new) \o <<47>> \o name

\* the manifest of the files of present, in the order given, spelled sp
RenameFrevs(order, sp) ==
    fix_directory_capitalization(
        [i \in 1..Len(order) |->
            Frev(FileIds[order[i]], <<1, 1>>,
                 DirPath(order[i], sp, sp, 0) \o <<47, 120>>, FALSE)])

\* the orders in which a manifest lists the files of a set of levels:
\* ascending or descending depth
Orders(present) ==
    {o \in SeqsOf(present, Cardinality(present), Cardinality(present)) :
        /\ \A i \in 1..Len(o) : \A j \in 1..Len(o) : i # j => o[i] # o[j]
        /\ \/ \A i \in 1..(Len(o) - 1) : o[i] < o[i + 1]
           \/ \A i \in 1..(Len(o) - 1) : o[i] > o[i + 1]}

RenamesInit ==
    /\ \E present \in SUBSET (1..MaxDepth) \ {{}} :
          \E o1 \in Orders(present), o2 \in Orders(present) :
              \E old \in Spellings, new \in Spellings :
                  uin = [present |-> present, old |-> old, new |-> new,
                         files |-> AddFiles([k \in 1..MaxDepth |->
                             [dummy |-> FALSE, author |-> <<97>>,
                              missing |-> FALSE, date |-> 10]]),
                         old_frevs |-> RenameFrevs(o1, old),
                         new_frevs |-> RenameFrevs(o2, new)]
    /\ upc = "call"
    /\ uout = <<>>
    /\ NotUnitIdle

\* changeset_build for the two project revisions, of the dates 20 and 40
ChangesetBuild ==
    /\ upc = "call"
    /\ uout' = changeset_build(uin.files, uin.old_frevs, 20, uin.new_frevs,
                               40, FALSE, 40)
    /\ upc' = "return"
    /\ UNCHANGED uin
    /\ UNCHANGED notUnit

RenamesNext == ChangesetBuild

SpecRenames == RenamesInit /\ [][RenamesNext]_vars

\* the levels of the directories the manifests hold
DirLevels == 1..(CHOOSE k \in uin.present : \A j \in uin.present : j <= k)

\* the levels whose directory changed the letter case of its final name
Recased == {k \in DirLevels : uin.old[k] # uin.new[k]}

\* C14: for two manifests that differ in the capitalization of directory
\* names only, changeset_build yields one rename for every directory whose
\* final name changed case, with no file, the new path in the new
\* spelling and the old path in the new spelling of the parents and the
\* old spelling of the final name; and no other rename, add, update or
\* delete
C14_DirectoryRenamesOnly ==
    upc = "return" =>
        /\ uout.ok
        /\ uout.adds = <<>> /\ uout.updates = <<>> /\ uout.deletes = <<>>
        /\ Len(uout.renames) = Cardinality(Recased)
        /\ \A i \in 1..Len(uout.renames) :
              uout.renames[i].file = NoFile
        /\ \A k \in Recased :
              \E i \in 1..Len(uout.renames) :
                  /\ uout.renames[i].canonical_name
                         = DirPath(k, uin.new, uin.new, k)
                  /\ uout.renames[i].old_canonical_name
                         = DirPath(k, uin.old, uin.new, k - 1)

\* witness of C14: three nested directories all changed case; the old path
\* of the rename of the innermost is "A/B/c"
C14_Witness ==
    /\ upc = "return"
    /\ Recased = {1, 2, 3}
    /\ \E i \in 1..Len(uout.renames) :
          /\ uout.renames[i].old_canonical_name = <<65, 47, 66, 47, 99>>
          /\ uout.renames[i].canonical_name = <<65, 47, 66, 47, 67>>

(***************************************************************************)
(* Specification SpecMain: main() of src/main.c from the end of option     *)
(* parsing.  uin holds the options and what the project makes export()     *)
(* write; uout is the process: the records written to stdout, whether a    *)
(* fatal error was raised, whether export() returned, the exit status      *)
(* (-1 while running).                                                     *)
(***************************************************************************)
\* mutant: fatal_error prints its message and returns
fatal_error_returns(proc) == [proc EXCEPT !.fatal = TRUE]

\* fatal_error and fatal_system_error: message to stderr, exit(1)
fatal_error(proc) == [proc EXCEPT !.fatal = TRUE, !.status = 1]

\* the records export() writes, in order: the blobs of export_blobs, the
\* commits, resets and tags of export_project_changes, one tag per branch
\* of export_demarcating_tags, the progress line of export_statistics
export(opts) ==
    [k \in 1..opts.nblobs |-> "blob"] \o opts.changes
        \o [k \in 1..opts.nbranches |-> "tag"] \o <<"progress">>

MaxRecords == 2

MainInit ==
    /\ uin \in [author_list : BOOLEAN, author_map : BOOLEAN,
                nblobs : 0..MaxRecords,
                changes : SeqsOf({"commit", "reset", "tag"}, 0, MaxRecords),
                nbranches : 1..2]
    /\ upc = "options"
    /\ uout = [stdout |-> <<>>, fatal |-> FALSE, export_returned |-> FALSE,
               exported |-> 0, status |-> -1]
    /\ NotUnitIdle

Running == uout.status = -1

\* if (!author_list) printf("feature done\n")
PrintFeatureDone ==
    /\ Running /\ upc = "options"
    /\ uout' = IF uin.author_list THEN uout
               ELSE [uout EXCEPT !.stdout = Append(@, "feature done")]
    /\ upc' = "import"
    /\ UNCHANGED uin
    /\ UNCHANGED notUnit

\* author_map_initialize (with --authormap) and import()
Import ==
    /\ Running /\ upc = "import"
    /\ upc' = IF uin.author_list THEN "authors" ELSE "export"
    /\ UNCHANGED <<uin, uout>>
    /\ UNCHANGED notUnit

\* dump_unmapped_authors(); exit(0)
DumpUnmappedAuthors ==
    /\ Running /\ upc = "authors"
    /\ uout' = [uout EXCEPT !.stdout = Append(@, "author"), !.status = 0]
    /\ UNCHANGED <<upc, uin>>
    /\ UNCHANGED notUnit

\* export() writes its next record, or returns after the last
Export ==
    /\ Running /\ upc = "export"
    /\ IF uout.exported < Len(export(uin))
       THEN /\ uout' = [uout EXCEPT
                           !.stdout = Append(@, export(uin)[uout.exported + 1]),
                           !.exported = @ + 1]
            /\ UNCHANGED upc
       ELSE /\ uout' = [uout EXCEPT !.export_returned = TRUE]
            /\ upc' = "done"
    /\ UNCHANGED uin
    /\ UNCHANGED notUnit

\* printf("done\n"); exit(0)
PrintDone ==
    /\ Running /\ upc = "done"
    /\ uout' = [uout EXCEPT !.stdout = Append(@, "done"), !.status = 0]
    /\ UNCHANGED <<upc, uin>>
    /\ UNCHANGED notUnit

\* a fatal error in author_map_initialize, import or export
FatalError ==
    /\ Running /\ upc \in {"import", "export"} /\ ~uout.fatal
    /\ uout' = fatal_error(uout)
    /\ UNCHANGED <<upc, uin>>
    /\ UNCHANGED notUnit

MainNext ==
    \/ PrintFeatureDone
    \/ Import
    \/ DumpUnmappedAuthors
    \/ Export
    \/ PrintDone
    \/ FatalError

SpecMain == MainInit /\ [][MainNext]_vars

\* C15: without --authorlist, "feature done" is on stdout before any
\* blob, commit, reset or tag; "done" is written after export() returned
\* only and is the last record; after a fatal error the exit status is 1
\* and "done" was not written
C15_FeatureDoneAndDone ==
    ~uin.author_list =>
        /\ \A i \in 1..Len(uout.stdout) :
              uout.stdout[i] \in {"blob", "commit", "reset", "tag"}
                  => i > 1 /\ uout.stdout[1] = "feature done"
        /\ \A i \in 1..Len(uout.stdout) :
              uout.stdout[i] = "done"
                  => /\ i = Len(uout.stdout)
                     /\ uout.export_returned
                     /\ SubSeq(uout.stdout, 2, i - 1) = export(uin)
        /\ uout.fatal =>
              /\ uout.status = 1
              /\ \A i \in 1..Len(uout.stdout) : uout.stdout[i] # "done"
        /\ uout.status = 0 => uout.stdout[Len(uout.stdout)] = "done"

\* witness of C15: a run that wrote blobs and commits and ended with
\* "done", status 0
C15_Witness ==
    /\ ~uin.author_list
    /\ uout.status = 0
    /\ Len(uout.stdout) >= 6
    /\ uout.stdout[1] = "feature done"
    /\ uout.stdout[2] = "blob"
    /\ \E i \in 1..Len(uout.stdout) : uout.stdout[i] = "commit"
    /\ uout.stdout[Len(uout.stdout)] = "done"

\* second witness of C15: a fatal error after blobs were written ended the
\* run with status 1
C15_FatalWitness ==
    /\ ~uin.author_list
    /\ uout.fatal /\ uout.status = 1
    /\ Len(uout.stdout) >= 2
    /\ uout.stdout[Len(uout.stdout)] = "blob"

(***************************************************************************)
(* Specification SpecPatch: apply_patch of src/rcs-text.c run on one patch *)
(* of up to MaxCmds commands.  Every command references line numbers that  *)
(* exist in the line list before the patch: 'aN C' has N in 0..n and       *)
(* 'dN C' has N >= 1 and N+C-1 <= n.                                       *)
(***************************************************************************)
MaxCmds == 2

\* the commands that reference existing lines of a list of n lines
PatchCmds(n) ==
    {Cmd("a", N, C) : N \in 0..n, C \in 1..MaxIns}
        \cup {cm \in {Cmd("d", N, C) : N \in 1..n, C \in 1..n} :
                cm.n + cm.k - 1 <= n}

\* the text of the i-th line inserted by the j-th command of a patch
InsText(j, i) == Text(10 * j + i)

\* the patch text of a command sequence as string_to_lines splits it: each
\* command line, an insert followed by the lines it inserts
RECURSIVE PatchLines(_, _)
PatchLines(cmds, j) ==
    IF j > Len(cmds) THEN <<>>
    ELSE <<PLine(cmds[j], FALSE)>>
            \o (IF cmds[j].c = "a"
                THEN [i \in 1..cmds[j].k |-> PLine(InsText(j, i), FALSE)]
                ELSE <<>>)
            \o PatchLines(cmds, j + 1)

PatchInit ==
    /\ upc = "start"
    /\ \E data \in DataLists :
         \E cmds \in SeqsOf(PatchCmds(Len(data)), 1, MaxCmds) :
            uin = [data |-> data, cmds |-> cmds]
    /\ uout = <<>>
    /\ NotUnitIdle

\* one call of apply_patch; "fatal" is its fatal_error("bad RCS patch")
ApplyPatch ==
    /\ upc = "start"
    /\ LET r == apply_patch(uin.data, PatchLines(uin.cmds, 1))
       IN  /\ uout' = r
           /\ upc' = IF r.ok THEN "patched" ELSE "fatal"
    /\ UNCHANGED uin
    /\ UNCHANGED notUnit

PatchNext == ApplyPatch

SpecPatch == PatchInit /\ [][PatchNext]_vars

\* reference interpretation: the pre-patch line numbers a patch removes
RefDeleted(cmds) ==
    {ln \in 1..(MaxLines + 1) :
        \E j \in 1..Len(cmds) :
            /\ cmds[j].c = "d"
            /\ ln >= cmds[j].n
            /\ ln <= cmds[j].n + cmds[j].k - 1}

\* reference interpretation: the texts that stand right after pre-patch
\* line p once commands j.. have acted (each insert lands immediately
\* after line p, so a later insert at p stands before an earlier one)
RECURSIVE RefInserted(_, _, _)
RefInserted(cmds, p, j) ==
    IF j > Len(cmds) THEN <<>>
    ELSE RefInserted(cmds, p, j + 1)
            \o (IF cmds[j].c = "a" /\ cmds[j].n = p
                THEN [i \in 1..cmds[j].k |-> InsText(j, i)]
                ELSE <<>>)

\* reference interpretation: the texts of the list from pre-patch line p on
RECURSIVE RefFrom(_, _, _)
RefFrom(data, cmds, p) ==
    IF p > Len(data) THEN <<>>
    ELSE (IF p \in RefDeleted(cmds) THEN <<>> ELSE <<data[p].line>>)
            \o RefInserted(cmds, p, 1)
            \o RefFrom(data, cmds, p + 1)

RefPatch(data, cmds) == RefInserted(cmds, 0, 1) \o RefFrom(data, cmds, 1)

\* C16 (as stated): for a patch whose commands all reference existing
\* pre-patch line numbers, apply_patch yields the line sequence of the
\* reference interpretation (every 'aN C' right after pre-patch line N,
\* every 'dN C' removing pre-patch lines N..N+C-1, whatever the other
\* commands of the patch are), without tombstones and numbered 1..k
C16_MatchesReference ==
    upc # "start" =>
        /\ uout.ok
        /\ Contents(uout.lines) = RefPatch(uin.data, uin.cmds)
        /\ \A i \in 1..Len(uout.lines) :
              uout.lines[i].line # NullLine /\ uout.lines[i].lineno = i

\* a delete whose range reaches past a line that an earlier command of the
\* same patch inserted after
DeleteSpansInsert(cmds) ==
    \E j \in 1..Len(cmds), i \in 1..Len(cmds) :
        /\ i < j
        /\ cmds[i].c = "a" /\ cmds[j].c = "d"
        /\ cmds[j].n <= cmds[i].n
        /\ cmds[i].n < cmds[j].n + cmds[j].k - 1

\* what the code does: the reference result, swept and renumbered, unless
\* a delete spans an earlier insert, and then the patch is fatal
C16_MatchesReferenceUnlessSpanned ==
    upc # "start" =>
        /\ uout.ok <=> ~DeleteSpansInsert(uin.cmds)
        /\ uout.ok =>
              /\ Contents(uout.lines) = RefPatch(uin.data, uin.cmds)
              /\ \A i \in 1..Len(uout.lines) :
                    /\ uout.lines[i].line # NullLine
                    /\ uout.lines[i].lineno = i

\* the failing patch: a1 1 then d1 2 on a list of two lines is fatal
C16_FatalOnSpannedDelete ==
    /\ upc = "fatal"
    /\ Len(uin.data) = 2
    /\ uin.cmds = <<Cmd("a", 1, 1), Cmd("d", 1, 2)>>

\* a patch in the order a diff writes it: d1 1 then a2 1 on three lines
\* gives line 2, the inserted line, line 3, numbered 1..3
C16_Witness ==
    /\ upc = "patched"
    /\ Len(uin.data) = 3
    /\ uin.cmds = <<Cmd("d", 1, 1), Cmd("a", 2, 1)>>
    /\ Contents(uout.lines)
          = <<uin.data[2].line, InsText(2, 1), uin.data[3].line>>
    /\ \A i \in 1..3 : uout.lines[i].lineno = i

(***************************************************************************)
(* Binary patch engine: src/rcs-binary.c.  A struct binary_data is the     *)
(* record [buf, bytes]: buf is "null" (NULL), "heap" (an allocation        *)
(* holding the len bytes) or "wild" (the pointer was never assigned and is *)
(* not NULL).  A patch text is held as its parsed commands                 *)
(* [c, off, len, bytes] ('a' carries the len bytes that follow it).        *)
(* size_t values are integers of which a negative one stands for the       *)
(* wrapped value 2^64 - |x|: sums and differences agree with the C         *)
(* arithmetic, and a negative value is larger than every length.           *)
(* Undefined behaviour is resolved by the parameter g of a run: "benign"   *)
(* (an unassigned pointer happens to be NULL, a write before the buffer    *)
(* goes unnoticed) or "crash" (the run dies at that operation).            *)
(***************************************************************************)
BinData(bytes) == [buf |-> "heap", bytes |-> bytes]

NullData == [buf |-> "null", bytes |-> <<>>]

BinCmd(ch, off, bytes_or_len) ==
    IF ch = "a"
    THEN [c |-> "a", off |-> off, len |-> Len(bytes_or_len),
          bytes |-> bytes_or_len]
    ELSE [c |-> "d", off |-> off, len |-> bytes_or_len, bytes |-> <<>>]

\* a size_t comparison a > b for b a real length
SizeGreater(a, b) == a < 0 \/ a > b

\* buffer_insert: ok = FALSE when it returns false; ub when buffer_grow
\* hands a wild pointer to realloc
buffer_insert(vb, buf, off, len) ==
    IF SizeGreater(off, Len(vb.bytes))
    THEN [ok |-> FALSE, ub |-> FALSE, data |-> vb]
    ELSE [ok |-> TRUE, ub |-> vb.buf = "wild",
          data |-> [buf |-> IF vb.buf = "wild" THEN "wild" ELSE "heap",
                    bytes |-> SubSeq(vb.bytes, 1, off) \o buf
                                \o SubSeq(vb.bytes, off + 1, Len(vb.bytes))]]

\* buffer_delete: the check is made on the wrapped sum off + len, so a
\* wrapped off can pass it; the memmove then writes before buf (ub), and
\* where the run goes on the buffer has lost its first off + len bytes
buffer_delete(vb, off, len) ==
    IF SizeGreater(off + len, Len(vb.bytes))
    THEN [ok |-> FALSE, ub |-> FALSE, data |-> vb]
    ELSE IF off < 0
    THEN [ok |-> TRUE, ub |-> TRUE,
          data |-> [vb EXCEPT !.bytes =
                      SubSeq(vb.bytes, off + len + 1, Len(vb.bytes))]]
    ELSE [ok |-> TRUE, ub |-> FALSE,
          data |-> [vb EXCEPT !.bytes =
                      SubSeq(vb.bytes, 1, off)
                        \o SubSeq(vb.bytes, off + len + 1, Len(vb.bytes))]]

\* buffer_copy into an unassigned struct: buf is left as it was when the
\* source has no buffer
buffer_copy(vb, g) ==
    IF vb.buf # "null" THEN [buf |-> "heap", bytes |-> vb.bytes]
    ELSE [buf |-> IF g = "benign" THEN "null" ELSE "wild", bytes |-> <<>>]

\* the command loop of apply_patch from command i on
RECURSIVE binary_patch_loop(_, _, _, _, _)
binary_patch_loop(patch, data, i, adjust, ub) ==
    IF i > Len(patch) THEN [ok |-> TRUE, ub |-> ub, data |-> data]
    ELSE IF patch[i].c = "d"
    THEN LET r == buffer_delete(data, patch[i].off - 1 + adjust,
                                patch[i].len)
         IN  IF ~r.ok THEN [r EXCEPT !.ub = ub]
             ELSE binary_patch_loop(patch, r.data, i + 1,
                                    adjust + patch[i].len, ub \/ r.ub)
    ELSE IF patch[i].c = "a"
    THEN LET r == buffer_insert(data, patch[i].bytes,
                                patch[i].off - adjust, patch[i].len)
         IN  IF ~r.ok THEN [r EXCEPT !.ub = ub]
             ELSE binary_patch_loop(patch, r.data, i + 1,
                                    adjust - patch[i].len, ub \/ r.ub)
    ELSE [ok |-> FALSE, ub |-> ub, data |-> data]

\* apply_patch of src/rcs-binary.c for a file not stored by reference:
\* ok = FALSE is the fatal "bad binary RCS patch"
binary_apply_patch(missing, patch, data) ==
    IF missing THEN [ok |-> TRUE, ub |-> FALSE, data |-> data]
    ELSE binary_patch_loop(patch, data, 1, 0, FALSE)

(***************************************************************************)
(* Revision trees with content: the patch buffers that read_patches builds *)
(* and apply_patches_and_emit walks (src/rcs-text.c, src/rcs-binary.c).    *)
(* A chain is the sequence of its patch buffers from its newest revision   *)
(* along ->parent; a patch buffer is the record                            *)
(*   [absent, missing, text, branches]                                     *)
(* absent: the RCS file has no patch for the revision; missing: the flag   *)
(* of struct rcs_patch; text: the patch text (the lines of a text file,    *)
(* the bytes of the head or the commands of a later revision of a binary   *)
(* file); branches: the chains rooted at the revision.  A revision is      *)
(* named by its path: <<i>> is trunk node i, <<i, b, j>> node j of branch  *)
(* b of trunk node i.                                                      *)
(***************************************************************************)
MaxNodes == 4

MaxFan == 2

PBuf(absent, text) ==
    [absent |-> absent, missing |-> FALSE, text |-> text, branches |-> <<>>]

\* the patch buffers a file of each kind can hold: a head and later ones
HeadBufs(kind) ==
    IF kind = "binary"
    THEN {PBuf(FALSE, <<>>), PBuf(FALSE, <<1>>), PBuf(TRUE, <<>>)}
    ELSE {PBuf(FALSE, <<>>), PBuf(FALSE, <<Text(1)>>)}

LaterBufs(kind) ==
    IF kind = "binary"
    THEN {PBuf(FALSE, <<BinCmd("a", 0, <<7>>)>>),
          PBuf(FALSE, <<BinCmd("d", 1, 1)>>), PBuf(TRUE, <<>>)}
    ELSE {PBuf(FALSE, <<Cmd("a", 0, 1), Text(7)>>),
          PBuf(FALSE, <<Cmd("d", 1, 1)>>)}

RECURSIVE NodesOf(_, _)
NodesOf(fan, b) ==
    IF b > Len(fan) THEN 0 ELSE Len(fan[b]) + NodesOf(fan, b + 1)

\* the branch lists of one revision
Fans(kind) ==
    {fan \in SeqsOf(SeqsOf(LaterBufs(kind), 1, 2), 0, MaxFan) :
        NodesOf(fan, 1) < MaxNodes}

WithFan(bufs, fans) == {[p EXCEPT !.branches = fan] : p \in bufs, fan \in fans}

\* the trees: a trunk of one or two revisions, MaxNodes revisions at most
Trees(kind) ==
    LET heads == WithFan(HeadBufs(kind), Fans(kind))
        laters == WithFan(LaterBufs(kind), Fans(kind))
    IN  {<<h>> : h \in heads}
          \cup {t \in {<<h, l>> : h \in heads, l \in laters} :
                  2 + NodesOf(t[1].branches, 1) + NodesOf(t[2].branches, 1)
                      <= MaxNodes}

\* create_missing_patches_from_rev (src/import.c) on the chain from node i
RECURSIVE create_missing_patches_from_rev(_, _, _)
create_missing_patches_from_rev(chain, i, missing_antecedent) ==
    IF i > Len(chain) THEN <<>>
    ELSE LET ma == missing_antecedent \/ chain[i].absent
             brs == chain[i].branches
             p == [chain[i] EXCEPT
                     !.missing = ma,
                     !.branches =
                        [b \in 1..Len(brs) |->
                            create_missing_patches_from_rev(brs[b], 1, ma)]]
         IN  <<p>> \o create_missing_patches_from_rev(chain, i + 1, ma)

create_missing_patches(tree) == create_missing_patches_from_rev(tree, 1, FALSE)

\* one call of the revision data handler
Emit(path, data) == [rev |-> path, data |-> data]

NoCalls == [calls |-> <<>>, status |-> "ok", aliased |-> FALSE]

\* new_patch_buf of src/rcs-binary.c: the text of a patch buffer (zeroed
\* when the patch is missing, without a buffer when the text is empty)
binary_patch_text(p) ==
    IF p.missing \/ p.text = <<>> THEN NullData ELSE BinData(p.text)

RECURSIVE binary_apply_patches_and_emit(_, _, _, _, _, _, _)
RECURSIVE binary_walk_branches(_, _, _, _, _, _)
\* apply_patches_and_emit of src/rcs-binary.c from node i of a chain;
\* first: data is NULL (the head of the file); the handler reads data[0]
\* of a buffer that is not NULL
binary_apply_patches_and_emit(chain, i, path, data, first, acc, g) ==
    IF i > Len(chain) \/ acc.status # "ok" THEN acc
    ELSE LET p == chain[i]
             r == IF first
                  THEN [ok |-> TRUE, ub |-> FALSE,
                        data |-> binary_patch_text(p)]
                  ELSE binary_apply_patch(p.missing, p.text, data)
         IN  IF ~r.ok THEN [acc EXCEPT !.status = "fatal"]
             ELSE IF r.ub /\ g = "crash" THEN [acc EXCEPT !.status = "crash"]
             ELSE LET emitted ==
                        [acc EXCEPT
                           !.calls = Append(@, Emit(path \o <<i>>,
                                                    r.data.bytes)),
                           !.status = IF r.data.buf = "wild"
                                      THEN "crash" ELSE @]
                      walked == binary_walk_branches(p.branches, 1,
                                    path \o <<i>>, r.data, emitted, g)
                  IN  binary_apply_patches_and_emit(chain, i + 1, path,
                                                    r.data, FALSE, walked, g)

\* the branch loop of apply_patches_and_emit: buffer_copy, the recursive
\* call, free(branch_data.buf)
binary_walk_branches(branches, b, path, data, acc, g) ==
    IF b > Len(branches) \/ acc.status # "ok" THEN acc
    ELSE LET branch_data == buffer_copy(data, g)
             w == binary_apply_patches_and_emit(branches[b], 1,
                      path \o <<b>>, branch_data, FALSE, acc, g)
             freed == IF w.status = "ok" /\ branch_data.buf = "wild"
                      THEN [w EXCEPT !.status = "crash"] ELSE w
         IN  binary_walk_branches(branches, b + 1, path, data, freed, g)

\* rcs_binary_file_read_all_revisions for a file that is neither a dummy
\* nor of member type other, with the content of every call
binary_read_contents(tree, g) ==
    binary_apply_patches_and_emit(tree, 1, <<>>, NullData, TRUE, NoCalls, g)

Blank == [c |-> "b", n |-> 0, k |-> 0]

Newline == [c |-> "nl", n |-> 0, k |-> 0]

\* string_to_lines of a text given as its lines (each ended by a newline):
\* an empty text gives one empty line without newline
string_to_lines(text) ==
    IF text = <<>>
    THEN <<[lineno |-> 1, line |-> Blank, no_newline |-> TRUE]>>
    ELSE [i \in 1..Len(text) |->
            [lineno |-> i, line |-> text[i], no_newline |-> FALSE]]

\* lines_to_string: the bytes of a line list, a line and a newline at a time
RECURSIVE lines_to_string(_, _)
lines_to_string(lines, i) ==
    IF i > Len(lines) THEN <<>>
    ELSE (IF lines[i].line = NullLine THEN <<>>
          ELSE (IF lines[i].line = Blank THEN <<>> ELSE <<lines[i].line>>)
                  \o (IF lines[i].no_newline THEN <<>> ELSE <<Newline>>))
            \o lines_to_string(lines, i + 1)

RECURSIVE text_apply_patches_and_emit(_, _, _, _, _, _)
RECURSIVE text_walk_branches(_, _, _, _, _)
\* apply_patches_and_emit of src/rcs-text.c from node i of a chain; a line
\* list without lines is the NULL pointer, so the patch of a revision that
\* follows an empty one is taken as its data (and freed twice: aliased);
\* emit_revision expands keywords in a copy and leaves data_lines alone
text_apply_patches_and_emit(chain, i, path, prev_data_lines, top, acc) ==
    IF i > Len(chain) \/ acc.status # "ok" THEN acc
    ELSE LET p == chain[i]
             r == IF prev_data_lines # <<>>
                  THEN apply_patch(prev_data_lines, string_to_lines(p.text))
                  ELSE [ok |-> TRUE, lines |-> string_to_lines(p.text)]
         IN  IF ~r.ok THEN [acc EXCEPT !.status = "fatal"]
             ELSE LET emitted ==
                        [acc EXCEPT
                           !.calls = Append(@, Emit(path \o <<i>>,
                                         lines_to_string(r.lines, 1))),
                           !.aliased = @ \/ (prev_data_lines = <<>>
                                               /\ ~(top /\ i = 1))]
                      walked == text_walk_branches(p.branches, 1,
                                    path \o <<i>>, r.lines, emitted)
                  IN  text_apply_patches_and_emit(chain, i + 1, path,
                                                  r.lines, top, walked)

\* the branch loop: lines_copy, the recursive call, lines_free
text_walk_branches(branches, b, path, data_lines, acc) ==
    IF b > Len(branches) \/ acc.status # "ok" THEN acc
    ELSE text_walk_branches(branches, b + 1, path, data_lines,
            text_apply_patches_and_emit(branches[b], 1, path \o <<b>>,
                                        data_lines, FALSE, acc))

\* rcs_file_read_all_revisions with the content of every call; the lists
\* freed twice by free_patch_buffers end the run where that is noticed
text_read_contents(tree, g) ==
    LET w == text_apply_patches_and_emit(tree, 1, <<>>, <<>>, TRUE, NoCalls)
    IN  IF w.status = "ok" /\ w.aliased /\ g = "crash"
        THEN [w EXCEPT !.status = "crash"] ELSE w

read_contents(kind, tree, g) ==
    IF kind = "binary" THEN binary_read_contents(tree, g)
    ELSE text_read_contents(tree, g)

(***************************************************************************)
(* Specification SpecTree: import_rcs_file flags the missing patches of a  *)
(* parsed file, export_blobs then reads all its revisions.                 *)
(***************************************************************************)
TreeInit ==
    /\ upc = "parsed"
    /\ \E kind \in {"text", "binary"} :
         \E tree \in Trees(kind) : uin = [kind |-> kind, tree |-> tree]
    /\ uout = <<>>
    /\ NotUnitIdle

CreateMissingPatches ==
    /\ upc = "parsed"
    /\ upc' = "imported"
    /\ uout' = [tree |-> create_missing_patches(uin.tree)]
    /\ UNCHANGED uin
    /\ UNCHANGED notUnit

ReadAllRevisions ==
    /\ upc = "imported"
    /\ upc' = "walked"
    /\ \E g \in {"benign", "crash"} :
         LET w == read_contents(uin.kind, uout.tree, g)
         IN  uout' = [tree |-> uout.tree, g |-> g,
                      calls |-> w.calls, status |-> w.status]
    /\ UNCHANGED uin
    /\ UNCHANGED notUnit

TreeNext == CreateMissingPatches \/ ReadAllRevisions

SpecTree == TreeInit /\ [][TreeNext]_vars

\* the tree with the branches of trunk node k removed
StripBranches(tree, k) == [tree EXCEPT ![k].branches = <<>>]

\* the tree in which branch b is the only branch of trunk node k
OnlyBranch(tree, k, b) == [tree EXCEPT ![k].branches = <<@[b]>>]

\* the content delivered, in order, for the trunk revisions after node k
LaterTrunkData(calls, k) ==
    LET sel == SelectSeq(calls, LAMBDA c : Len(c.rev) = 1 /\ c.rev[1] > k)
    IN  [i \in 1..Len(sel) |-> sel[i].data]

\* the content delivered, in order, for the revisions of branch b of node k
BranchData(calls, k, b) ==
    LET sel == SelectSeq(calls, LAMBDA c :
                   Len(c.rev) = 3 /\ c.rev[1] = k /\ c.rev[2] = b)
    IN  [i \in 1..Len(sel) |-> sel[i].data]

\* a walk that no bad patch ends: every later trunk revision is delivered
\* the bytes it gets when node k has no branches, and every branch of node
\* k the bytes it gets when it is the only branch of node k
BranchesLeaveContent ==
    \A k \in 1..Len(uout.tree) :
       LET alone == read_contents(uin.kind, StripBranches(uout.tree, k),
                                  uout.g)
       IN  /\ alone.status # "fatal" =>
                 LaterTrunkData(uout.calls, k) = LaterTrunkData(alone.calls, k)
           /\ \A b \in 1..Len(uout.tree[k].branches) :
                 LET only == read_contents(uin.kind,
                                 OnlyBranch(uout.tree, k, b), uout.g)
                 IN  only.status # "fatal" =>
                        BranchData(uout.calls, k, b)
                           = BranchData(only.calls, k, 1)

\* C17 (as stated): walking the branches rooted at a revision leaves its
\* content unchanged for the parent chain and for sibling branches: the
\* later revisions of the parent chain are delivered the same bytes as if
\* the revision had no branches, and each sibling branch starts from the
\* same root content
C17_BranchesLeaveContent ==
    (upc = "walked" /\ uout.status # "fatal") => BranchesLeaveContent

\* a branch is rooted at a revision of a binary file whose buffer pointer
\* is NULL: the head with an empty or missing text, or a later revision
\* whose patches left that buffer alone
RECURSIVE NullRootFanout(_, _)
NullRootFanout(tree, i) ==
    /\ i <= Len(tree)
    /\ (tree[1].missing \/ tree[1].text = <<>>)
    /\ \/ tree[i].branches # <<>>
       \/ /\ i < Len(tree)
          /\ (tree[i + 1].missing \/ tree[i + 1].text[1].c # "a")
          /\ NullRootFanout(tree, i + 1)

\* what the code keeps: the frame holds for text files, and for binary
\* files unless the unassigned branch buffer is a wild pointer
C17_BranchesLeaveContentUnlessWild ==
    (upc = "walked" /\ uout.status # "fatal"
       /\ (uin.kind = "text" \/ uout.g = "benign"
              \/ ~NullRootFanout(uout.tree, 1)))
        => BranchesLeaveContent

\* the failing walk: a binary file with an empty head 1.2 that roots a
\* branch; the run dies in the branch and 1.1 is never delivered
C17_CrashAtNullRoot ==
    /\ upc = "walked" /\ uin.kind = "binary"
    /\ Len(uout.tree) = 2
    /\ uout.tree[1].text = <<>> /\ ~uout.tree[1].missing
    /\ Len(uout.tree[1].branches) = 1
    /\ uout.status = "crash"
    /\ \A i \in 1..Len(uout.calls) : uout.calls[i].rev # <<2>>

\* a walk where the frame is at work: two branches rooted at a head with
\* content, both start from the head's bytes, and the trunk goes on from
\* them
C17_Witness ==
    /\ upc = "walked" /\ uin.kind = "binary" /\ uout.status = "ok"
    /\ Len(uout.tree) = 2
    /\ uout.tree[1].text = <<1>>
    /\ Len(uout.tree[1].branches) = 2
    /\ BranchData(uout.calls, 1, 1) = <<<<7, 1>>>>
    /\ BranchData(uout.calls, 1, 2) = <<<<>>>>
    /\ LaterTrunkData(uout.calls, 1) = <<<<7, 1>>>>

\* the patch buffer of a revision of a tree
NodeAt(tree, path) ==
    IF Len(path) = 1 THEN tree[path[1]]
    ELSE tree[path[1]].branches[path[2]][path[3]]

\* the revision a revision derives from: the one before it on its chain,
\* the root of the branch for the first of a branch, <<>> for the head
DerivedFrom(path) ==
    IF Len(path) = 1
    THEN (IF path[1] = 1 THEN <<>> ELSE <<path[1] - 1>>)
    ELSE IF path[3] = 1 THEN <<path[1]>>
    ELSE <<path[1], path[2], path[3] - 1>>

\* the missing flags from node i of a chain on are closed under
\* derivation: set where the patch is absent and, once set, set on every
\* later node of the chain and on every branch rooted there
RECURSIVE MissingClosed(_, _, _)
MissingClosed(chain, i, derived_missing) ==
    \/ i > Len(chain)
    \/ /\ chain[i].missing = (derived_missing \/ chain[i].absent)
       /\ \A b \in 1..Len(chain[i].branches) :
             MissingClosed(chain[i].branches[b], 1, chain[i].missing)
       /\ MissingClosed(chain, i + 1, chain[i].missing)

\* the calls made for revisions whose patch is flagged missing
MissingCalls ==
    {i \in 1..Len(uout.calls) : NodeAt(uout.tree, uout.calls[i].rev).missing}

\* C18 (as stated): a revision whose patch is flagged missing, and every
\* revision derived from it, is delivered zero-length content, also when
\* the missing patch lies in the middle of a chain whose earlier revisions
\* had content; and the missing flags set at import are closed under
\* derivation
C18_MissingDeliversEmpty ==
    /\ upc \in {"imported", "walked"} => MissingClosed(uout.tree, 1, FALSE)
    /\ upc = "walked" => \A i \in MissingCalls : uout.calls[i].data = <<>>

\* what the code delivers: a revision flagged missing gets the bytes of the
\* revision it derives from unchanged, zero-length only for the head
C18_MissingDeliversPrevious ==
    /\ upc \in {"imported", "walked"} => MissingClosed(uout.tree, 1, FALSE)
    /\ upc = "walked" =>
          \A i \in MissingCalls :
             LET from == DerivedFrom(uout.calls[i].rev)
             IN  IF from = <<>> THEN uout.calls[i].data = <<>>
                 ELSE \E j \in 1..(i - 1) :
                         /\ uout.calls[j].rev = from
                         /\ uout.calls[i].data = uout.calls[j].data

\* the failing walk: head 1.2 has the byte 1, the patch of 1.1 is absent,
\* and 1.1 is delivered the byte 1
C18_StaleContentDelivered ==
    /\ upc = "walked" /\ uin.kind = "binary"
    /\ uout.tree[1].text = <<1>>
    /\ Len(uout.tree) = 2 /\ uout.tree[2].absent
    /\ \E i \in MissingCalls :
          uout.calls[i].rev = <<2>> /\ uout.calls[i].data = <<1>>

\* a missing head: it, its parent and its branch are flagged and all three
\* are delivered zero-length content
C18_Witness ==
    /\ upc = "walked" /\ uin.kind = "binary" /\ uout.g = "benign"
    /\ uout.tree[1].absent
    /\ Len(uout.tree) = 2 /\ ~uout.tree[2].absent
    /\ Len(uout.tree[1].branches) = 1
    /\ Len(uout.calls) >= 3
    /\ \A i \in 1..Len(uout.calls) :
          i \in MissingCalls /\ uout.calls[i].data = <<>>

(***************************************************************************)
(* Specification SpecBinaryPatch: apply_patch of src/rcs-binary.c run on   *)
(* one patch of up to MaxCmds commands in ascending offset order, on a     *)
(* buffer of up to MaxBuf bytes.                                           *)
(***************************************************************************)
MaxBuf == 3

\* the bytes the j-th command of a patch inserts
InsBytes(j, len) == [i \in 1..len |-> 10 * j + i]

\* the commands that address a buffer of n bytes, as the j-th of a patch
BinPatchCmds(n, j) ==
    {BinCmd("a", off, InsBytes(j, len)) : off \in 0..n, len \in 1..MaxIns}
        \cup {cm \in {BinCmd("d", off, len) : off \in 1..n, len \in 1..n} :
                cm.off + cm.len - 1 <= n}

\* the last pre-patch offset a command touches
LastOffset(cm) == IF cm.c = "d" THEN cm.off + cm.len - 1 ELSE cm.off

\* ascending offset order, as a diff writes an edit script: a command
\* starts past the bytes the one before it deleted, an insert may follow
\* the delete it replaces at that delete's last offset
Ascending(cmds) ==
    \A j \in 1..(Len(cmds) - 1) :
       IF cmds[j].c = "d" /\ cmds[j + 1].c = "a"
       THEN LastOffset(cmds[j]) <= cmds[j + 1].off
       ELSE LastOffset(cmds[j]) < cmds[j + 1].off

BinPatches(n) ==
    {<<c1>> : c1 \in BinPatchCmds(n, 1)}
        \cup {p \in {<<c1, c2>> : c1 \in BinPatchCmds(n, 1),
                                  c2 \in BinPatchCmds(n, 2)} : Ascending(p)}

BinaryPatchInit ==
    /\ upc = "start"
    /\ \E n \in 0..MaxBuf :
         \E patch \in BinPatches(n) :
            uin = [data |-> BinData([i \in 1..n |-> i]), patch |-> patch]
    /\ uout = <<>>
    /\ NotUnitIdle

\* one call of apply_patch on a patch that is not missing
BinaryApplyPatch ==
    /\ upc = "start"
    /\ \E g \in {"benign", "crash"} :
         LET r == binary_apply_patch(FALSE, uin.patch, uin.data)
         IN  /\ uout' = [ok |-> r.ok, ub |-> r.ub, bytes |-> r.data.bytes]
             /\ upc' = IF ~r.ok THEN "fatal"
                       ELSE IF r.ub /\ g = "crash" THEN "crash"
                       ELSE "patched"
    /\ UNCHANGED uin
    /\ UNCHANGED notUnit

BinaryPatchNext == BinaryApplyPatch

SpecBinaryPatch == BinaryPatchInit /\ [][BinaryPatchNext]_vars

\* reference edit script: the pre-patch offsets a patch deletes
RefDeletedOffsets(patch) ==
    {o \in 1..(MaxBuf + 1) :
        \E j \in 1..Len(patch) :
            patch[j].c = "d" /\ o >= patch[j].off /\ o <= LastOffset(patch[j])}

\* reference edit script: the bytes inserted right after pre-patch offset o
RECURSIVE RefInsertedBytes(_, _, _)
RefInsertedBytes(patch, o, j) ==
    IF j > Len(patch) THEN <<>>
    ELSE (IF patch[j].c = "a" /\ patch[j].off = o THEN patch[j].bytes
          ELSE <<>>)
            \o RefInsertedBytes(patch, o, j + 1)

RECURSIVE RefBytesFrom(_, _, _)
RefBytesFrom(bytes, patch, o) ==
    IF o > Len(bytes) THEN <<>>
    ELSE (IF o \in RefDeletedOffsets(patch) THEN <<>> ELSE <<bytes[o]>>)
            \o RefInsertedBytes(patch, o, 1)
            \o RefBytesFrom(bytes, patch, o + 1)

RefEditScript(bytes, patch) ==
    RefInsertedBytes(patch, 0, 1) \o RefBytesFrom(bytes, patch, 1)

\* C19 (as stated): for a binary patch with several commands in ascending
\* offset order apply_patch yields the reference result of the edit script
\* on the pre-patch buffer: 'dOFF LEN' removes the bytes at the 1-based
\* pre-patch offsets OFF..OFF+LEN-1, 'aOFF LEN' inserts its bytes right
\* after pre-patch offset OFF
C19_MatchesEditScript ==
    upc # "start" =>
        /\ upc = "patched" /\ ~uout.ub
        /\ uout.bytes = RefEditScript(uin.data.bytes, uin.patch)

\* the value of adjust when command j is reached
RECURSIVE AdjustAt(_, _)
AdjustAt(patch, j) ==
    IF j <= 1 THEN 0
    ELSE AdjustAt(patch, j - 1)
            + (IF patch[j - 1].c = "d" THEN patch[j - 1].len
               ELSE 0 - patch[j - 1].len)

\* what the code does: it yields the reference result exactly when every
\* delete is reached with adjust = 0
C19_MatchesEditScriptIffAdjustZero ==
    upc # "start" =>
        ((uout.ok /\ ~uout.ub
            /\ uout.bytes = RefEditScript(uin.data.bytes, uin.patch))
         <=> \A j \in 1..Len(uin.patch) :
                uin.patch[j].c = "d" => AdjustAt(uin.patch, j) = 0)

\* the failing patch: d1 1 then d3 1 on the bytes 1 2 3 is fatal
C19_SecondDeleteFatal ==
    /\ upc = "fatal"
    /\ uin.data.bytes = <<1, 2, 3>>
    /\ uin.patch = <<BinCmd("d", 1, 1), BinCmd("d", 3, 1)>>

\* a replacement as a diff writes it: d2 1 then a2 2 on the bytes 1 2 3
C19_Witness ==
    /\ upc = "patched"
    /\ uin.data.bytes = <<1, 2, 3>>
    /\ uin.patch = <<BinCmd("d", 2, 1), BinCmd("a", 2, InsBytes(2, 2))>>
    /\ uout.bytes = <<1, 21, 22, 3>>

(***************************************************************************)
(* Specification SpecAdjustAdds: adjust_adds of src/changeset.c run on the *)
(* adds of one or two files.  A file is listed at the newest of up to      *)
(* MaxRevs revisions of its trunk (1.1, 1.2, ...) or of a branch rooted at *)
(* 1.1 (1.1, 1.1.1.1, 1.1.1.2, ...); each earlier revision has no version  *)
(* metadata, is checkpointed, or has one of three dates; a second file has *)
(* one earlier revision at most.                                           *)
(***************************************************************************)
MaxRevs == 3

\* the i-th revision of a chain
ChainRev(chain, i) ==
    IF chain = "trunk" THEN <<1, i>>
    ELSE IF i = 1 THEN <<1, 1>> ELSE <<1, 1, 1, i - 1>>

\* what an earlier revision can be
PrevKinds ==
    {[exists |-> FALSE, checkpointed |-> FALSE, date |-> 0],
     [exists |-> TRUE, checkpointed |-> TRUE, date |-> 3]}
        \cup {[exists |-> TRUE, checkpointed |-> FALSE, date |-> d] :
                d \in {1, 2, 3}}

AdjFileKinds ==
    {[dummy |-> TRUE, chain |-> "trunk", prevs |-> <<>>]}
        \cup {[dummy |-> FALSE, chain |-> ch, prevs |-> pv] :
                ch \in {"trunk", "branch"},
                pv \in SeqsOf(PrevKinds, 0, MaxRevs - 1)}

\* the revision the manifest lists for a file
ListedRev(kind) == ChainRev(kind.chain, Len(kind.prevs) + 1)

AdjFile(kind, k) ==
    LET n == Len(kind.prevs) + 1
        present == SelectSeq([i \in 1..n |-> i],
                             LAMBDA i : i = n \/ kind.prevs[i].exists)
    IN  [name |-> <<96 + k>>, dummy |-> kind.dummy,
         versions |->
            IF kind.dummy THEN <<>>
            ELSE [j \in 1..Len(present) |->
                    LET i == present[j]
                        v == Version(ChainRev(kind.chain, i), <<>>, <<>>,
                                 IF i = n THEN 3 ELSE kind.prevs[i].date, "a")
                    IN  [v EXCEPT !.checkpointed =
                            i < n /\ kind.prevs[i].checkpointed]]]

AdjustAddsInit ==
    /\ upc = "start"
    /\ \E kinds \in {<<k1>> : k1 \in AdjFileKinds}
                     \cup {<<k1, k2>> : k1 \in AdjFileKinds,
                           k2 \in {k \in AdjFileKinds : Len(k.prevs) <= 1}},
          old_date \in {1, 2} :
         uin = [files |-> [f \in {FileIds[k] : k \in 1..Len(kinds)} |->
                             LET k == CHOOSE k \in 1..Len(kinds) :
                                         FileIds[k] = f
                             IN  AdjFile(kinds[k], k)],
                adds |-> [k \in 1..Len(kinds) |->
                            Change(FileIds[k], <<96 + k>>, <<>>, <<>>,
                                   ListedRev(kinds[k]), FALSE, FALSE)],
                old_date |-> old_date]
    /\ uout = <<>>
    /\ NotUnitIdle

AdjustAdds ==
    /\ upc = "start"
    /\ upc' = "adjusted"
    /\ uout' = adjust_adds(uin.files, uin.adds, uin.old_date)
    /\ UNCHANGED uin
    /\ UNCHANGED notUnit

AdjustAddsNext == AdjustAdds

SpecAdjustAdds == AdjustAddsInit /\ [][AdjustAddsNext]_vars

\* the add stops at R: nothing is previous to R, or the previous version
\* does not exist, is checkpointed, or is dated at or before old_date
StopsAt(file, R, old_date) ==
    \/ rcs_number_decrement_null(R)
    \/ LET prevver == rcs_file_find_version(file, rcs_number_decrement(R))
       IN  \/ prevver = NoVersion
           \/ prevver.checkpointed
           \/ prevver.date <= old_date

\* the updates us lead from revision R up to revision top, one revision
\* at a time
IsUpdateChain(us, R, top) ==
    /\ \A j \in 1..Len(us) :
          /\ us[j].oldrev = rcs_number_decrement(us[j].newrev)
          /\ us[j].oldrev = IF j = 1 THEN R ELSE us[j - 1].newrev
    /\ top = IF us = <<>> THEN R ELSE us[Len(us)].newrev

\* C20: after adjust_adds with the previous checkpoint's date t_old every
\* non-dummy add ends at a revision R with decrement(R) none, or whose
\* predecessor version does not exist, is checkpointed or is dated <=
\* t_old; and the updates generated for its file form a contiguous chain
\* from R up to the revision the manifest lists, one per skipped revision
C20_AddsWalkedBack ==
    upc = "adjusted" =>
        \A i \in 1..Len(uout.adds) :
           LET f == uout.adds[i].file
               us == SelectSeq(uout.upd, LAMBDA u : u.file = f)
           IN  ~uin.files[f].dummy =>
                  /\ StopsAt(uin.files[f], uout.adds[i].newrev, uin.old_date)
                  /\ IsUpdateChain(us, uout.adds[i].newrev, uin.adds[i].newrev)

\* a file listed at 1.3 whose 1.2 and 1.1 are later than the previous
\* checkpoint: the add ends at 1.1 with the updates 1.1 -> 1.2 -> 1.3
C20_Witness ==
    /\ upc = "adjusted"
    /\ Len(uin.adds) = 1
    /\ uin.adds[1].newrev = <<1, 3>>
    /\ uout.adds[1].newrev = <<1, 1>>
    /\ Len(uout.upd) = 2
    /\ uout.upd[1].oldrev = <<1, 1>> /\ uout.upd[1].newrev = <<1, 2>>
    /\ uout.upd[2].oldrev = <<1, 2>> /\ uout.upd[2].newrev = <<1, 3>>

\* an add that stops in the middle: 1.2 is later than the checkpoint and
\* 1.1 is not, so the add ends at 1.2
C20_StopsAtOldDate ==
    /\ upc = "adjusted"
    /\ Len(uin.adds) = 1
    /\ uin.adds[1].newrev = <<1, 3>>
    /\ uout.adds[1].newrev = <<1, 2>>
    /\ Len(uout.upd) = 1

(***************************************************************************)
(* Specification SpecUpdates: changeset_build, called by get_commit_list   *)
(* of src/export.c, between two manifests of up to MaxUpdFiles files.      *)
(* Every file has the revisions 1.1 and 1.2; the blob pass has set         *)
(* kw_projrev on the versions of the files whose text holds                *)
(* $ProjectRevision$.  The manifests are as project.c builds them (Frev:   *)
(* nothing assigns the ver pointer of a manifest entry), and the new one   *)
(* is a checkpoint or the tip of the branch.                               *)
(***************************************************************************)
MaxUpdFiles == 2

\* main.c declares the global and nothing assigns it
exporting_tip == FALSE

\* file k, with or without $ProjectRevision$ in its text
UpdFile(k, kw) ==
    [name |-> <<96 + k>>, dummy |-> FALSE, binary |-> FALSE,
     head |-> <<1, 2>>,
     versions |-> [i \in 1..2 |->
         Version(<<1, 3 - i>>, IF i = 1 THEN <<1, 1>> ELSE <<>>, <<>>,
                 IF i = 1 THEN 30 ELSE 10, <<97>>)
             @@ [kw_projrev |-> kw, jit |-> kw]],
     patches |-> [i \in 1..2 |->
         [number |-> <<1, 3 - i>>, log |-> "l", missing |-> FALSE]],
     has_member_type_other |-> FALSE, in_projdir |-> FALSE,
     other_blob_mark |-> 0]

\* a manifest: listed[k] is 0 (file k is not listed) or the second
\* component of the revision it is listed at
UpdManifest(listed) ==
    LET ks == SelectSeq([k \in 1..Len(listed) |-> k],
                        LAMBDA k : listed[k] # 0)
    IN  [i \in 1..Len(ks) |->
            Frev(FileIds[ks[i]], <<1, listed[ks[i]]>>, <<96 + ks[i]>>, FALSE)]

UpdatesInit ==
    /\ upc = "call"
    /\ \E n \in 1..MaxUpdFiles :
         \E kw \in [1..n -> BOOLEAN], old \in [1..n -> 0..2],
            new \in [1..n -> 0..2], tip \in BOOLEAN :
            uin = [files |-> [f \in {FileIds[k] : k \in 1..n} |->
                                UpdFile(CHOOSE k \in 1..n : FileIds[k] = f,
                                        kw[CHOOSE k \in 1..n :
                                               FileIds[k] = f])],
                   old |-> UpdManifest(old), new |-> UpdManifest(new),
                   tip |-> tip]
    /\ uout = <<>>
    /\ NotUnitIdle

\* get_commit_list up to its changeset: changeset_build for the manifests
\* (old of date 20; new of the project revision's date 40 or of the
\* branch's mtime 50), found being what its find_updates call returned
BuildChangeset ==
    /\ upc = "call"
    /\ upc' = "return"
    /\ LET new_date == IF uin.tip THEN 50 ELSE 40
       IN  uout' = [found |-> find_updates(uin.old, uin.new, exporting_tip),
                    changes |-> changeset_build(uin.files, uin.old, 20,
                                    uin.new, new_date, exporting_tip, 40)]
    /\ UNCHANGED uin
    /\ UNCHANGED notUnit

UpdatesNext == BuildChangeset

SpecUpdates == UpdatesInit /\ [][UpdatesNext]_vars

\* the version a manifest entry resolves to
ResolvedVersion(frev) == rcs_file_find_version(uin.files[frev.file], frev.rev)

\* the entries of the new manifest that are due a $ProjectRevision$
\* update: the version has kw_projrev, the file is in old too and has no
\* regular update
DueProjrev ==
    {j \in 1..Len(uin.new) :
        /\ ResolvedVersion(uin.new[j]).kw_projrev
        /\ ListsFile(uin.old, uin.new[j].file)
        /\ ~\E k \in 1..Len(uout.found) :
              /\ ~uout.found[k].projrev_update
              /\ uout.found[k].file = uin.new[j].file}

\* the $ProjectRevision$ updates of a list, for file f
ProjrevOf(list, f) ==
    SelectSeq(list, LAMBDA c : c.projrev_update /\ c.file = f)

\* C21 (as stated): for a non-tip new manifest find_updates appends
\* exactly one change with projrev_update and oldrev = newrev for each file
\* of new whose resolved version has kw_projrev, that is in old too and has
\* no regular update, and none for any other file
C21_ProjrevUpdates ==
    (upc = "return" /\ ~uin.tip) =>
        \A j \in 1..Len(uin.new) :
           LET ps == ProjrevOf(uout.found, uin.new[j].file)
           IN  IF j \in DueProjrev
               THEN /\ Len(ps) = 1
                    /\ ps[1].oldrev = uin.new[j].rev
                    /\ ps[1].newrev = uin.new[j].rev
               ELSE ps = <<>>

\* what the code does: no manifest entry has its version pointer set, so
\* find_updates makes no $ProjectRevision$ update at all
C21_NoProjrevUpdateEver ==
    upc = "return" =>
        /\ \A k \in 1..Len(uout.found) : ~uout.found[k].projrev_update
        /\ \A j \in 1..Len(uin.new) : uin.new[j].ver = NoVersion

\* the failing call: f1 has $ProjectRevision$ and is listed at 1.1 in both
\* manifests of a checkpoint, and find_updates returns nothing
C21_ProjrevUpdateLost ==
    /\ upc = "return" /\ ~uin.tip
    /\ Len(uin.new) = 1 /\ Len(uin.old) = 1
    /\ uin.new[1].rev = <<1, 1>> /\ uin.old[1].rev = <<1, 1>>
    /\ ResolvedVersion(uin.new[1]).kw_projrev
    /\ uout.found = <<>>

MaxSortLen == 3

\* the date of revision 1.i
SortDate(down, i) == IF down THEN 10 * (MaxRevs + 1 - i) ELSE 10 * i

SortFile(name, down, dummy) ==
    [name |-> name, dummy |-> dummy, binary |-> dummy, head |-> <<1, MaxRevs>>,
     versions |-> IF dummy THEN <<>>
                  ELSE [j \in 1..MaxRevs |->
                          LET i == MaxRevs + 1 - j
                          IN  Version(<<1, i>>,
                                  IF i = 1 THEN <<>> ELSE <<1, i - 1>>, <<>>,
                                  SortDate(down, i), <<97>>)],
     patches |-> IF dummy THEN <<>>
                 ELSE [j \in 1..MaxRevs |->
                         [number |-> <<1, MaxRevs + 1 - j>>, log |-> "l",
                          missing |-> FALSE]],
     has_member_type_other |-> dummy, in_projdir |-> dummy,
     other_blob_mark |-> IF dummy THEN 1 ELSE 0]

\* the name of file k in a manifest
SortName(k, recased) ==
    IF k = 1 THEN (IF recased THEN <<65>> ELSE <<97>>)
    ELSE IF k = 2 THEN (IF recased THEN <<66, 47, 120>> ELSE <<98, 47, 120>>)
    ELSE <<99>>

\* a manifest: listed[k] is 0 or the second component of the revision of
\* file k
SortManifest(listed, recased) ==
    LET ks == SelectSeq(<<1, 2, 3>>, LAMBDA k : listed[k] # 0)
    IN  [i \in 1..Len(ks) |->
            Frev(FileIds[ks[i]], <<1, listed[ks[i]]>>,
                 SortName(ks[i], recased[ks[i]]), FALSE)]

\* the changes sort_changes is called on directly
SortChangeSet ==
    {Change(f, n, <<>>, <<>>, <<1, r>>, FALSE, FALSE) :
        f \in {"f1", "f2"}, n \in {<<97>>, <<98>>}, r \in 1..2}

SortLists ==
    {l \in SeqsOf(SortChangeSet, 0, MaxSortLen) :
        \A i \in 1..Len(l) : \A j \in 1..Len(l) : i # j => l[i] # l[j]}

SortInit ==
    /\ upc = "call"
    /\ \/ \E l \in SortLists, cmp \in {"name", "date", "rev"},
             down \in BOOLEAN :
             uin = [kind |-> "sort", list |-> l, compare |-> cmp,
                    files |-> [f \in {"f1", "f2"} |->
                                 SortFile(<<97>>, down /\ f = "f1", FALSE)]]
       \/ \E old \in [1..3 -> 0..1], new \in [1..3 -> 0..MaxRevs],
             down \in [1..2 -> BOOLEAN], recased \in [1..2 -> BOOLEAN],
             dummy \in BOOLEAN :
             /\ dummy => new[3] <= 1
             /\ uin = [kind |-> "build",
                       files |-> [f \in {"f1", "f2", "f3"} |->
                           IF f = "f1" THEN SortFile(<<97>>, down[1], FALSE)
                           ELSE IF f = "f2"
                                THEN SortFile(<<98, 47, 120>>, down[2], FALSE)
                           ELSE SortFile(<<99>>, FALSE, dummy)],
                       old |-> SortManifest(old, <<FALSE, FALSE, FALSE>>),
                       new |-> SortManifest(new, recased \o <<FALSE>>)]
    /\ uout = <<>>
    /\ NotUnitIdle

\* sort_changes(list, compare)
SortChanges ==
    /\ upc = "call" /\ uin.kind = "sort"
    /\ upc' = "sorted"
    /\ uout' = sort_changes(uin.list,
                   IF uin.compare = "name" THEN compare_by_name_of(uin.list)
                   ELSE IF uin.compare = "date"
                        THEN compare_by_date_of(uin.files, 0, uin.list)
                   ELSE compare_by_rev_of(uin.list))
    /\ UNCHANGED uin
    /\ UNCHANGED notUnit

\* changeset_build for the manifests, of the dates 15 and 35
BuildSorted ==
    /\ upc = "call" /\ uin.kind = "build"
    /\ upc' = "built"
    /\ uout' = changeset_build(uin.files, uin.old, 15, uin.new, 35,
                               exporting_tip, 35)
    /\ UNCHANGED uin
    /\ UNCHANGED notUnit

SortNext == SortChanges \/ BuildSorted

SpecSort == SortInit /\ [][SortNext]_vars

\* the comparison function of the direct call
SortCompare(a, b) ==
    IF uin.compare = "name" THEN compare_by_name(a, b)
    ELSE IF uin.compare = "date" THEN compare_by_date(uin.files, 0, a, b)
    ELSE compare_by_rev(a, b)

\* where change c is in list
PositionIn(list, c) == CHOOSE k \in 1..Len(list) : list[k] = c

\* the output of the direct call is a permutation of its input
SortPermutes ==
    /\ Len(uout) = Len(uin.list)
    /\ \A k \in 1..Len(uin.list) : \E j \in 1..Len(uout) : uout[j] = uin.list[k]

\* changes that compare equal keep the order of the input
SortStable ==
    \A p \in 1..Len(uout) : \A q \in (p + 1)..Len(uout) :
        SortCompare(uout[p], uout[q]) = 0
            => PositionIn(uin.list, uout[p]) < PositionIn(uin.list, uout[q])

\* no change is before one it compares greater than
SortOrdered ==
    \A p \in 1..Len(uout) : \A q \in (p + 1)..Len(uout) :
        SortCompare(uout[p], uout[q]) <= 0

\* list is in non-decreasing order of canonical name
NameOrdered(list) ==
    \A p \in 1..Len(list) : \A q \in (p + 1)..Len(list) :
        strcmp(list[p].canonical_name, list[q].canonical_name) <= 0

\* list is in non-decreasing order of (date, name)
DateOrdered(list) ==
    \A p \in 1..Len(list) : \A q \in (p + 1)..Len(list) :
        LET dp == get_change_date(uin.files, 35, list[p])
            dq == get_change_date(uin.files, 35, list[q])
        IN  \/ dp < dq
            \/ /\ dp = dq
               /\ strcmp(list[p].canonical_name, list[q].canonical_name) <= 0

\* the updates of every file are in ascending order of newrev
RevOrdered(list) ==
    \A p \in 1..Len(list) : \A q \in (p + 1)..Len(list) :
        list[p].file = list[q].file
            => rcs_number_compare(list[p].newrev, list[q].newrev) < 0

\* C23 (as stated): sort_changes is a stable insertion sort whose output
\* is a permutation of its input; after the final sorts of changeset_build
\* the adds are in non-decreasing (date, name) order, the renames and the
\* deletes in non-decreasing order of canonical name, and the updates of
\* every file in ascending order of newrev
C23_SortedLists ==
    /\ upc = "sorted" => SortPermutes /\ SortStable
    /\ upc = "built" =>
          /\ DateOrdered(uout.adds)
          /\ NameOrdered(uout.renames)
          /\ NameOrdered(uout.deletes)
          /\ RevOrdered(uout.updates)

\* the directory renames and the file renames of a list
DirRenames(list) == SelectSeq(list, LAMBDA r : r.file = NoFile)
FileRenames(list) == SelectSeq(list, LAMBDA r : r.file # NoFile)

\* C23 (amended): the output of sort_changes is a permutation of its
\* input, in order and stable under compare_by_name and compare_by_date,
\* and under compare_by_rev for the changes of one file; after the final
\* sorts the adds are in non-decreasing (date, name) order, the renames
\* are the directory renames in non-decreasing order of name followed by
\* the file renames in non-decreasing order of name, the deletes are in
\* non-decreasing order of name and the updates of every file in ascending
\* order of newrev
C23_SortedListsDirsFirst ==
    /\ upc = "sorted" =>
          /\ SortPermutes
          /\ uin.compare # "rev" => SortStable /\ SortOrdered
          /\ uin.compare = "rev" =>
                \A p \in 1..Len(uout) : \A q \in (p + 1)..Len(uout) :
                    uout[p].file = uout[q].file =>
                        /\ compare_by_rev(uout[p], uout[q]) <= 0
                        /\ compare_by_rev(uout[p], uout[q]) = 0 =>
                              PositionIn(uin.list, uout[p])
                                  < PositionIn(uin.list, uout[q])
    /\ upc = "built" =>
          /\ DateOrdered(uout.adds)
          /\ uout.renames = DirRenames(uout.renames)
                                \o FileRenames(uout.renames)
          /\ NameOrdered(DirRenames(uout.renames))
          /\ NameOrdered(FileRenames(uout.renames))
          /\ NameOrdered(uout.deletes)
          /\ RevOrdered(uout.updates)

\* a changeset with a directory rename before a file rename, an add, and
\* two updates of one file with an update of another file between them in
\* date order
C23_Witness ==
    /\ upc = "built"
    /\ Len(uout.adds) = 1
    /\ Len(uout.renames) = 2
    /\ \E k \in 1..Len(uout.updates) :
          uout.updates[k].file = "f1" /\ uout.updates[k].newrev = <<1, 3>>
    /\ \E k \in 1..Len(uout.updates) : uout.updates[k].file = "f2"
    /\ uout.renames[1].file = NoFile /\ uout.renames[2].file # NoFile
    /\ \E p \in 1..Len(uout.updates) : \E q \in (p + 1)..Len(uout.updates) :
          uout.updates[p].file = uout.updates[q].file

\* a directory rename to "B" is followed by the file rename to "A"
C23_RenamesOutOfOrder ==
    /\ upc = "built"
    /\ Len(uout.renames) = 2
    /\ uout.renames[1].canonical_name = <<66>>
    /\ uout.renames[2].canonical_name = <<65>>

\* compare_by_rev moved a change before one of another file that was
\* before it in the input
C23_RevSortReorders ==
    /\ upc = "sorted" /\ uin.compare = "rev"
    /\ ~SortStable

\* the changes of dummy files in list come after all others
DummiesLast(list) ==
    \A p \in 1..Len(list) : \A q \in 1..Len(list) :
        (uin.files[list[p].file].dummy /\ ~uin.files[list[q].file].dummy)
            => q < p

\* the changes of dummy files in list come before all others
DummiesFirst(list) ==
    \A p \in 1..Len(list) : \A q \in 1..Len(list) :
        (uin.files[list[p].file].dummy /\ ~uin.files[list[q].file].dummy)
            => p < q

\* the timestamps of the revisions of the files that have any
RealDates ==
    {uin.files[f].versions[i].date :
        f \in {g \in DOMAIN uin.files : ~uin.files[g].dummy},
        i \in 1..MaxRevs}

\* C24 (as stated): get_change_date gives the change of a dummy file a
\* timestamp greater than that of every real revision, so that in the adds
\* and updates of a changeset, sorted by date, the changes of dummy files
\* come after all others
C24_DummySortsLast ==
    upc = "built" =>
        /\ \A k \in 1..Len(uout.adds) :
              uin.files[uout.adds[k].file].dummy =>
                  \A d \in RealDates :
                      get_change_date(uin.files, 35, uout.adds[k]) > d
        /\ DummiesLast(uout.adds)
        /\ DummiesLast(uout.updates)

\* what the code does: (time_t)~0 is -1, lower than every timestamp, and
\* the changes of dummy files come first
C24_DummySortsFirst ==
    upc = "built" =>
        /\ \A k \in 1..Len(uout.adds) :
              uin.files[uout.adds[k].file].dummy =>
                  /\ get_change_date(uin.files, 35, uout.adds[k]) = -1
                  /\ \A d \in RealDates : -1 < d
        /\ DummiesFirst(uout.adds)

\* the failing changeset: the dummy file "c" and the file "a" are added,
\* and the add of "c" is first
C24_DummyAddFirst ==
    /\ upc = "built"
    /\ Len(uout.adds) = 2
    /\ uout.adds[1].file = "f3" /\ uin.files["f3"].dummy
    /\ uout.adds[2].file = "f1"

(***************************************************************************)
(* Specification SpecMergeUpdates: merge_updates of src/merge.c on the     *)
(* update list of a changeset of up to MaxMergeFiles files.  A file is     *)
(* reverted from 1.2 to 1.1, updated to 1.2, or updated to 1.2 and then    *)
(* to 1.3; its revisions have one author and one log, and the patches of   *)
(* its revisions 1.1 and 1.2 can be missing.                               *)
(***************************************************************************)
MaxMergeFiles == 3

MergeFileKinds ==
    [updates : {"revert", "one", "two"},
     author : {<<97>>, <<98>>}, log : {"l", "m"}, missing : BOOLEAN]

MergeFile(kind, k) ==
    [name |-> <<96 + k>>, dummy |-> FALSE, binary |-> FALSE,
     head |-> <<1, 3>>,
     versions |-> [j \in 1..3 |->
         Version(<<1, 4 - j>>, IF j = 3 THEN <<>> ELSE <<1, 3 - j>>, <<>>,
                 10 * (4 - j), kind.author)],
     patches |-> [j \in 1..3 |->
         [number |-> <<1, 4 - j>>,
          log |-> IF kind.missing /\ j > 1 THEN NoLog ELSE kind.log,
          missing |-> kind.missing /\ j > 1]],
     has_member_type_other |-> FALSE, in_projdir |-> FALSE,
     other_blob_mark |-> 0]

\* the updates of file k as changeset_build lists them
MergeFileUpdates(kind, k) ==
    IF kind.updates = "revert"
    THEN <<Change(FileIds[k], <<96 + k>>, <<>>, <<1, 2>>, <<1, 1>>,
                  FALSE, FALSE)>>
    ELSE [i \in 1..(IF kind.updates = "one" THEN 1 ELSE 2) |->
            Change(FileIds[k], <<96 + k>>, <<>>, <<1, i>>, <<1, i + 1>>,
                   FALSE, FALSE)]

RECURSIVE MergeUpdateList(_, _)
MergeUpdateList(kinds, k) ==
    IF k > Len(kinds) THEN <<>>
    ELSE MergeFileUpdates(kinds[k], k) \o MergeUpdateList(kinds, k + 1)

MergeUpdatesInit ==
    /\ upc = "call"
    /\ \E kinds \in SeqsOf(MergeFileKinds, 1, MaxMergeFiles) :
          /\ \A k \in 1..Len(kinds) :
                /\ k > 1 => kinds[k].author = <<97>> \/ kinds[k].log = "l"
                /\ k > 2 => kinds[k].author = <<97>> /\ kinds[k].log = "l"
          /\ LET files == [f \in {FileIds[k] : k \in 1..Len(kinds)} |->
                             LET k == CHOOSE k \in 1..Len(kinds) :
                                         FileIds[k] = f
                             IN  MergeFile(kinds[k], k)]
                 list == MergeUpdateList(kinds, 1)
                 bydate == sort_changes(list,
                               compare_by_date_of(files, 0, list))
             IN  uin = [files |-> files,
                        update_list |-> sort_changes(bydate,
                                            compare_by_rev_of(list))]
    /\ uout = <<>>
    /\ NotUnitIdle

\* whether update u goes back to an earlier revision
Reverts(u) == rcs_number_compare(u.newrev, u.oldrev) < 0

\* the internal error commit_msg_updates stops at for the updates of a
\* commit, "" when it returns a message
commit_msg_updates_fatal(files, updates) ==
    LET count == Len(updates)
        patch(k) == rcs_file_find_patch(files[updates[k].file],
                                        updates[k].newrev)
    IN  IF Reverts(updates[1])
        THEN IF count # 1 THEN "internal error: merged reversions" ELSE ""
        ELSE IF \E k \in 1..count :
                   /\ patch(k).missing /\ count # 1
                   /\ \A j \in 1..(k - 1) : patch(j).log = patch(1).log
             THEN "internal error: merged update with missing RCS patch"
        ELSE IF \E k \in 1..count : patch(k).log # patch(1).log
             THEN "internal error: log fields not the same in update commit"
        ELSE ""

\* merge_updates(branch, update_list, cp_date): the commits, or the fatal
\* error of the first commit whose message cannot be made
MergeUpdates ==
    /\ upc = "call"
    /\ LET commits == merge_updates(uin.files, uin.update_list, 40, <<112>>)
           bad == {k \in 1..Len(commits) :
                      commit_msg_updates_fatal(uin.files,
                          commits[k].changes.updates) # ""}
       IN  IF bad = {}
           THEN /\ upc' = "merged"
                /\ uout' = [commits |-> commits, error |-> ""]
           ELSE LET k == CHOOSE k \in bad : \A j \in bad : k <= j
                IN  /\ upc' = "fatal"
                    /\ uout' = [commits |-> SubSeq(commits, 1, k - 1),
                                error |-> commit_msg_updates_fatal(uin.files,
                                              commits[k].changes.updates)]
    /\ UNCHANGED uin
    /\ UNCHANGED notUnit

MergeUpdatesNext == MergeUpdates

SpecMergeUpdates == MergeUpdatesInit /\ [][MergeUpdatesNext]_vars

\* whether the patch of the revision update u makes is missing
PatchMissing(u) == rcs_file_find_patch(uin.files[u.file], u.newrev).missing

\* C25: every commit merge_updates makes that holds a reverting update or
\* an update whose patch is missing holds that one change only, the
\* committer of a revert commit is the unknown author, and
\* commit_msg_updates stops at none of its three internal errors
C25_RevertedAndMissingStandAlone ==
    upc # "call" =>
        /\ upc = "merged" /\ uout.error = ""
        /\ \A k \in 1..Len(uout.commits) :
              LET updates == uout.commits[k].changes.updates
              IN  \A j \in 1..Len(updates) :
                     /\ (Reverts(updates[j]) \/ PatchMissing(updates[j]))
                           => Len(updates) = 1
                     /\ Reverts(updates[j])
                           => uout.commits[k].committer = unknown_author

\* the commits hold a revert alone, an update with a missing patch alone
\* and a commit of two merged updates
C25_Witness ==
    /\ upc = "merged"
    /\ \E k \in 1..Len(uout.commits) :
          Reverts(uout.commits[k].changes.updates[1])
    /\ \E k \in 1..Len(uout.commits) :
          LET u == uout.commits[k].changes.updates[1]
          IN  PatchMissing(u) /\ ~Reverts(u)
    /\ \E k \in 1..Len(uout.commits) :
          Len(uout.commits[k].changes.updates) = 2

(***************************************************************************)
(* Keyword expansion: src/rcs-keyword.c.  A line is the sequence of its    *)
(* characters, its newline included; an index past its end reads the NUL.  *)
(***************************************************************************)

\* *(line + i - 1)
LineChar(line, i) == IF i <= Len(line) THEN line[i] ELSE "NUL"

\* whether str is at index lp of line
StrAt(line, lp, str) ==
    \A k \in 1..Len(str) : LineChar(line, lp + k - 1) = str[k]

\* line_findstr(line + lp - 1, str): the first index >= lp, before the
\* newline, where str starts; 0 if none
RECURSIVE line_findstr(_, _, _)
line_findstr(line, lp, str) ==
    IF lp > Len(line) \/ line[lp] = "\n" THEN 0
    ELSE IF StrAt(line, lp, str) THEN lp
    ELSE line_findstr(line, lp + 1, str)

\* rcs_number_string of a number of one-digit components
RECURSIVE rcs_number_string(_)
rcs_number_string(n) ==
    LET digit(d) == <<"0", "1", "2", "3", "4", "5", "6", "7", "8", "9">>[d + 1]
    IN  IF Len(n) = 1 THEN <<digit(n[1])>>
        ELSE <<digit(n[1]), ".">> \o rcs_number_string(Tail(n))

KwAuthor == <<"$", "A", "u", "t", "h", "o", "r">>
KwRevision == <<"$", "R", "e", "v", "i", "s", "i", "o", "n">>

\* expanded_author_str
expanded_author_str(ver) == KwAuthor \o <<":", " ">> \o ver.author \o <<" ", "$">>

\* expanded_revision_str
expanded_revision_str(ver) ==
    KwRevision \o <<":", " ">> \o rcs_number_string(ver.number) \o <<" ", "$">>

\* expand_keyword: the characters kw_start .. kw_end - 1 of the line give
\* way to expanded_str
expand_keyword(line, kw_start, kw_end, expanded_str) ==
    SubSeq(line, 1, kw_start - 1) \o expanded_str
        \o SubSeq(line, kw_end, Len(line))

\* the for loop that looks for the '$' that closes "$Keyword: blah $"
RECURSIVE closing_from(_, _)
closing_from(line, lp) ==
    IF LineChar(line, lp) \in {"NUL", "\n", "$"} THEN lp
    ELSE closing_from(line, lp + 1)

\* the body of the loop of rcs_data_expand_generic_keyword for one line
expand_on_line(line, keyword, expanded) ==
    LET kw == line_findstr(line, 1, keyword)
        lp0 == kw + Len(keyword)
        lp == IF LineChar(line, lp0) = ":" THEN closing_from(line, lp0 + 1)
              ELSE lp0
    IN  IF kw = 0 THEN line
        ELSE IF LineChar(line, lp) # "$" THEN line
        ELSE expand_keyword(line, kw, lp + 1, expanded)

\* rcs_data_keyword_expansion on a line that holds no keyword but $Author
\* and $Revision: the '@@' are unescaped, then the keywords are expanded
\* in the order of the table
rcs_data_keyword_expansion(ver, line) ==
    expand_on_line(
        expand_on_line(rcs_data_unescape_ats(line), KwAuthor,
                       expanded_author_str(ver)),
        KwRevision, expanded_revision_str(ver))

(***************************************************************************)
(* Specification SpecKeywords: rcs_data_keyword_expansion on one line made *)
(* of up to MaxPieces pieces, for revision 1.1 or 1.2 of author "a".       *)
(***************************************************************************)
MaxPieces == 3

KwPieces ==
    {<<"H", "e", "l", "l", "o", " ">>,
     <<"!">>,
     <<"@", "@">>,
     KwRevision \o <<"$">>,
     KwRevision \o <<":", " ", "9", " ", "$">>,
     KwRevision \o <<"s", " ">>,
     KwAuthor \o <<"$">>}

RECURSIVE Concat(_)
Concat(pieces) ==
    IF pieces = <<>> THEN <<>> ELSE Head(pieces) \o Concat(Tail(pieces))

KeywordsInit ==
    /\ upc = "read"
    /\ \E pieces \in SeqsOf(KwPieces, 1, MaxPieces), r \in 1..2 :
          uin = [line |-> Concat(pieces) \o <<"\n">>,
                 ver |-> [number |-> <<1, r>>, author |-> <<"a">>]]
    /\ uout = <<>>
    /\ NotUnitIdle

ExpandKeywords ==
    /\ upc = "read"
    /\ upc' = "expanded"
    /\ uout' = rcs_data_keyword_expansion(uin.ver, uin.line)
    /\ UNCHANGED uin
    /\ UNCHANGED notUnit

KeywordsNext == ExpandKeywords

SpecKeywords == KeywordsInit /\ [][KeywordsNext]_vars

\* the index after the keyword "$Name$" or "$Name: ... $" that starts at
\* index i of line, 0 if none starts there
KeywordEnd(line, i, keyword) ==
    LET lp0 == i + Len(keyword)
        lp == IF LineChar(line, lp0) = ":" THEN closing_from(line, lp0 + 1)
              ELSE lp0
    IN  IF StrAt(line, i, keyword) /\ LineChar(line, lp) = "$" THEN lp + 1
        ELSE 0

\* the line from index i with every keyword replaced by its expansion
RECURSIVE RefExpandFrom(_, _, _)
RefExpandFrom(ver, line, i) ==
    IF i > Len(line) THEN <<>>
    ELSE IF KeywordEnd(line, i, KwAuthor) # 0
         THEN expanded_author_str(ver)
                  \o RefExpandFrom(ver, line, KeywordEnd(line, i, KwAuthor))
    ELSE IF KeywordEnd(line, i, KwRevision) # 0
         THEN expanded_revision_str(ver)
                  \o RefExpandFrom(ver, line, KeywordEnd(line, i, KwRevision))
    ELSE <<line[i]>> \o RefExpandFrom(ver, line, i + 1)

RefExpand(ver, line) == RefExpandFrom(ver, rcs_data_unescape_ats(line), 1)

\* 'Hello $Revision$!'
HelloLine ==
    <<"H", "e", "l", "l", "o", " ">> \o KwRevision \o <<"$", "!", "\n">>

\* C26 (as stated): after rcs_data_keyword_expansion every occurrence on a
\* line of a keyword in the form $Name$ or $Name: ... $ is replaced by its
\* expansion, a second occurrence of the same keyword and an occurrence
\* after other text that starts like the keyword included; 'Hello
\* $Revision$!' at revision 1.1 becomes 'Hello $Revision: 1.1 $!'
C26_EveryKeywordExpanded ==
    upc = "expanded" => uout = RefExpand(uin.ver, uin.line)

\* how often str starts in line from index i on
RECURSIVE Occurrences(_, _, _)
Occurrences(line, i, str) ==
    IF i > Len(line) THEN 0
    ELSE (IF StrAt(line, i, str) THEN 1 ELSE 0) + Occurrences(line, i + 1, str)

\* what the code does: every keyword is expanded where no keyword name
\* starts twice on the line; otherwise the first place a name starts is
\* the only one looked at
C26_FirstOccurrenceExpanded ==
    upc = "expanded" =>
        LET line == rcs_data_unescape_ats(uin.line)
        IN  /\ (/\ Occurrences(line, 1, KwAuthor) <= 1
                /\ Occurrences(line, 1, KwRevision) <= 1)
                  => uout = RefExpand(uin.ver, uin.line)
            /\ \A keyword \in {KwAuthor, KwRevision} :
                  LET kw == line_findstr(line, 1, keyword)
                  IN  (kw # 0 /\ KeywordEnd(line, kw, keyword) = 0)
                         => Occurrences(uout, 1, keyword)
                                = Occurrences(line, 1, keyword)

\* the example of the claim, which the code gets right
C26_HelloExpanded ==
    /\ upc = "expanded"
    /\ uin.line = HelloLine /\ uin.ver.number = <<1, 1>>
    /\ uout = <<"H", "e", "l", "l", "o", " ">> \o KwRevision
                  \o <<":", " ", "1", ".", "1", " ", "$", "!", "\n">>

\* the failing line '$Revision$$Revision$': the second keyword is left
C26_SecondOccurrenceLeft ==
    /\ upc = "expanded"
    /\ uin.line = KwRevision \o <<"$">> \o KwRevision \o <<"$", "\n">>
    /\ uout = expanded_revision_str(uin.ver) \o KwRevision \o <<"$", "\n">>

\* the failing line '$Revisions $Revision$': nothing is expanded
C26_KeywordAfterPrefixLeft ==
    /\ upc = "expanded"
    /\ uin.line = KwRevision \o <<"s", " ">> \o KwRevision \o <<"$", "\n">>
    /\ uout = uin.line

(***************************************************************************)
(* Keywords and renames: name_keyword and path_keyword of                  *)
(* src/rcs-keyword.c, which the blob pass calls when it expands a keyword  *)
(* that holds the name or the path of the file, and the updates            *)
(* merge_renames of src/merge.c adds to its rename commits.                *)
(***************************************************************************)

\* name_keyword
name_keyword(file, ver) ==
    [ver EXCEPT !.kw_name = TRUE, !.jit = @ \/ file.name_changes > 1]

\* path_keyword
path_keyword(file, ver) ==
    [ver EXCEPT !.kw_path = TRUE, !.jit = @ \/ file.path_changes > 1]

\* the flags of a version after its text was expanded: has_name says that
\* the text holds $Id$, $RCSfile$ or $Log$, has_path that it holds
\* $Header$ or $Source$
keyword_flags(file, ver) ==
    LET v1 == IF file.has_path THEN path_keyword(file, ver) ELSE ver
    IN  IF file.has_name THEN name_keyword(file, v1) ELSE v1

\* the loop of update_keywords_for_dir_rename over the files f of the old
\* manifest from the i-th, for rename r (the k-th of the commit)
RECURSIVE dir_rename_updates(_, _, _, _, _, _)
dir_rename_updates(files, renames, k, old_frevs, i, acc) ==
    IF acc.fatal \/ i > Len(old_frevs) THEN acc
    ELSE LET r == renames[k]
             f == old_frevs[i]
             longer == \E j \in (k + 1)..Len(renames) :
                          /\ is_parent_dir(renames[j].canonical_name,
                                           files[f.file].name)
                          /\ Len(renames[j].canonical_name)
                                 > Len(r.canonical_name)
         IN  IF /\ f.ver # NoVersion
                /\ f.ver.kw_path
                /\ is_parent_dir(r.canonical_name, files[f.file].name)
                /\ ~longer
             THEN IF ~f.ver.jit
                  THEN [acc EXCEPT !.fatal = TRUE]
                  ELSE dir_rename_updates(files, renames, k, old_frevs, i + 1,
                           [acc EXCEPT !.updates = Append(@,
                               Change(f.file,
                                   MemcpyOver(files[f.file].name,
                                              r.canonical_name),
                                   <<>>, f.rev, f.rev, FALSE, FALSE))])
             ELSE dir_rename_updates(files, renames, k, old_frevs, i + 1, acc)

\* update_keywords_for_dir_rename from the k-th rename of the commit
RECURSIVE update_keywords_for_dir_rename(_, _, _, _, _)
update_keywords_for_dir_rename(files, renames, k, old_frevs, acc) ==
    IF acc.fatal \/ k > Len(renames) THEN acc
    ELSE update_keywords_for_dir_rename(files, renames, k + 1, old_frevs,
             dir_rename_updates(files, renames, k, old_frevs, 1, acc))

\* update_keywords_for_file_rename from the k-th rename of the commit
RECURSIVE update_keywords_for_file_rename(_, _, _, _)
update_keywords_for_file_rename(renames, k, old_frevs, acc) ==
    IF acc.fatal \/ k > Len(renames) THEN acc
    ELSE LET r == renames[k]
             found == {i \in 1..Len(old_frevs) : old_frevs[i].file = r.file}
             f == old_frevs[CHOOSE i \in found : \A j \in found : i <= j]
         IN  IF found = {} THEN [acc EXCEPT !.fatal = TRUE]
             ELSE IF f.ver # NoVersion /\ (f.ver.kw_name \/ f.ver.kw_path)
             THEN IF ~f.ver.jit THEN [acc EXCEPT !.fatal = TRUE]
                  ELSE update_keywords_for_file_rename(renames, k + 1,
                           old_frevs,
                           [acc EXCEPT !.updates = Append(@,
                               Change(f.file, r.canonical_name, <<>>,
                                      f.rev, f.rev, FALSE, FALSE))])
             ELSE update_keywords_for_file_rename(renames, k + 1, old_frevs,
                                                  acc)

\* merge_renames with the keyword updates of its two commits: fatal says
\* that it stopped at "should be JIT for rename"
merge_renames_with_keywords(files, renames, old_frevs, cp_date) ==
    LET cdir == merge_renames_sub(renames, cp_date, TRUE)
        cfile == merge_renames_sub(renames, cp_date, FALSE)
        none == [fatal |-> FALSE, updates |-> <<>>]
        udir == IF cdir = <<>> THEN none
                ELSE update_keywords_for_dir_rename(files,
                         cdir[1].changes.renames, 1, old_frevs, none)
        ufile == IF cfile = <<>> \/ udir.fatal THEN none
                 ELSE update_keywords_for_file_rename(
                          cfile[1].changes.renames, 1, old_frevs, none)
        with(c, u) == IF c = <<>> THEN <<>>
                      ELSE <<[c[1] EXCEPT !.changes.updates = u.updates]>>
    IN  [fatal |-> udir.fatal \/ ufile.fatal,
         commits |-> with(cdir, udir) \o with(cfile, ufile)]

(***************************************************************************)
(* Specification SpecRenameKeywords: the blob pass over the files "a" and  *)
(* "b/x", whose texts hold keywords of the name, of the path, both or      *)
(* none, and then the rename commits between two manifests that list the   *)
(* files at one revision each, the new one with "a" spelled "A" or "b/x"   *)
(* spelled "B/x".                                                          *)
(***************************************************************************)
KwFile(name, has_name, has_path) ==
    [name |-> name, dummy |-> FALSE, binary |-> FALSE,
     head |-> <<1, MaxRevs>>,
     has_name |-> has_name, has_path |-> has_path,
     name_changes |-> 0, path_changes |-> 0,
     versions |-> [j \in 1..MaxRevs |->
         Version(<<1, MaxRevs + 1 - j>>, <<>>, <<>>, 10, <<97>>)
             @@ [kw_name |-> FALSE, kw_path |-> FALSE, jit |-> FALSE]],
     patches |-> [j \in 1..MaxRevs |->
         [number |-> <<1, MaxRevs + 1 - j>>, log |-> "l",
          missing |-> FALSE]],
     has_member_type_other |-> FALSE, in_projdir |-> FALSE,
     other_blob_mark |-> 0]

RenameKeywordsInit ==
    /\ upc = "imported"
    /\ \E has_name \in [1..2 -> BOOLEAN], has_path \in [1..2 -> BOOLEAN],
          recased \in [1..2 -> BOOLEAN], rev \in [1..2 -> 1..MaxRevs] :
          uin = [files |-> [f \in {"f1", "f2"} |->
                    IF f = "f1" THEN KwFile(<<97>>, has_name[1], has_path[1])
                    ELSE KwFile(<<98, 47, 120>>, has_name[2], has_path[2])],
                 old |-> [k \in 1..2 |->
                            Frev(FileIds[k], <<1, rev[k]>>,
                                 SortName(k, FALSE), FALSE)],
                 new |-> [k \in 1..2 |->
                            Frev(FileIds[k], <<1, rev[k]>>,
                                 SortName(k, recased[k]), FALSE)]]
    /\ uout = <<>>
    /\ NotUnitIdle

\* the blob pass: every revision of every file is expanded, which sets the
\* keyword flags of its version
ExpandAllRevisions ==
    /\ upc = "imported"
    /\ upc' = "blobs"
    /\ uout' = [files |-> [f \in DOMAIN uin.files |->
                   [uin.files[f] EXCEPT !.versions =
                       [j \in 1..Len(@) |->
                           keyword_flags(uin.files[f], @[j])]]]]
    /\ UNCHANGED uin
    /\ UNCHANGED notUnit

\* the changes between the manifests, and merge_renames on their renames
MergeRenames ==
    /\ upc = "blobs"
    /\ LET changes == changeset_build(uout.files, uin.old, 20, uin.new, 40,
                                      exporting_tip, 40)
           merged == merge_renames_with_keywords(uout.files, changes.renames,
                                                 uin.old, 40)
       IN  /\ upc' = IF merged.fatal THEN "fatal" ELSE "merged"
           /\ uout' = [files |-> uout.files, renames |-> changes.renames,
                       commits |-> merged.commits]
    /\ UNCHANGED uin
    /\ UNCHANGED notUnit

RenameKeywordsNext == ExpandAllRevisions \/ MergeRenames

SpecRenameKeywords == RenameKeywordsInit /\ [][RenameKeywordsNext]_vars

\* the version of the file revision the old manifest lists for file f
ListedVersion(f) ==
    LET i == CHOOSE i \in 1..Len(uin.old) : uin.old[i].file = f
    IN  rcs_file_find_version(uout.files[f], uin.old[i].rev)

\* the versions merge_renames handles: that of a renamed file with a
\* keyword of its name or path, and that of a file with a keyword of its
\* path in a renamed directory
RenameHandled ==
    {ListedVersion(uout.renames[k].file) :
        k \in {j \in 1..Len(uout.renames) :
                  /\ uout.renames[j].file # NoFile
                  /\ \/ ListedVersion(uout.renames[j].file).kw_name
                     \/ ListedVersion(uout.renames[j].file).kw_path}}
    \cup {ListedVersion(f) :
            f \in {g \in DOMAIN uout.files :
                     /\ ListedVersion(g).kw_path
                     /\ \E j \in 1..Len(uout.renames) :
                           /\ uout.renames[j].file = NoFile
                           /\ is_parent_dir(uout.renames[j].canonical_name,
                                            uout.files[g].name)}}

\* C27 (as stated): whenever merge_renames handles a renamed file whose
\* version has kw_name or kw_path, or a file with kw_path in a renamed
\* directory, the blob pass has set the jit flag of the version, and the
\* "should be JIT for rename" error is not reached
C27_RenamedKeywordsAreJit ==
    /\ upc # "fatal"
    /\ upc = "merged" => \A v \in RenameHandled : v.jit

\* what the code does: merge_renames never stops at the error, and no
\* version has its jit flag set by name_keyword or path_keyword
C27_NeverJitNeverFatal ==
    /\ upc # "fatal"
    /\ upc \in {"blobs", "merged"} =>
          \A f \in DOMAIN uout.files :
             \A j \in 1..Len(uout.files[f].versions) :
                ~uout.files[f].versions[j].jit
    /\ upc = "merged" =>
          \A k \in 1..Len(uout.commits) :
             uout.commits[k].changes.updates = <<>>

\* the failing run: "a", whose text holds $RCSfile$, is renamed to "A",
\* and its version is not flagged jit
C27_RenamedNotJit ==
    /\ upc = "merged"
    /\ \E k \in 1..Len(uout.renames) : uout.renames[k].file = "f1"
    /\ ListedVersion("f1").kw_name
    /\ ~ListedVersion("f1").jit

(***************************************************************************)
(* Specification SpecAdjustUpdates: adjust_updates of src/changeset.c on   *)
(* the updates of one or two files between any two of the revisions        *)
(* 1.1 .. 1.MaxRevs, 2.1, 1.2.1.1 and 1.2.1.2.  The patches of 1.2 and of  *)
(* 1.2.1.1 can be absent from the file, and 1.2.1.1 can be a "Duplicate    *)
(* revision".                                                              *)
(***************************************************************************)
UpdRevs ==
    {<<1, i>> : i \in 1..MaxRevs} \cup {<<2, 1>>, <<1, 2, 1, 1>>, <<1, 2, 1, 2>>}

UpdRevSeq ==
    [i \in 1..MaxRevs |-> <<1, i>>] \o <<<<2, 1>>, <<1, 2, 1, 1>>, <<1, 2, 1, 2>>>>

AdjUpdFile(k, absent, duplicate) ==
    LET present == SelectSeq(UpdRevSeq, LAMBDA r : r \notin absent)
    IN  [name |-> <<96 + k>>, dummy |-> FALSE, binary |-> FALSE,
         head |-> <<2, 1>>,
         versions |-> [j \in 1..Len(UpdRevSeq) |->
                          Version(UpdRevSeq[j], <<>>, <<>>, 10, <<97>>)],
         patches |-> [j \in 1..Len(present) |->
                        [number |-> present[j],
                         log |-> IF duplicate /\ present[j] = <<1, 2, 1, 1>>
                                 THEN "Duplicate revision\n" ELSE "l",
                         missing |-> FALSE]],
         has_member_type_other |-> FALSE, in_projdir |-> FALSE,
         other_blob_mark |-> 0]

AdjustUpdatesInit ==
    /\ upc = "call"
    /\ \E n \in 1..2, absent \in SUBSET {<<1, 2>>, <<1, 2, 1, 1>>},
          duplicate \in BOOLEAN :
          \E old \in [1..n -> UpdRevs], new \in [1..n -> UpdRevs] :
             uin = [files |-> [f \in {FileIds[k] : k \in 1..n} |->
                        AdjUpdFile(CHOOSE k \in 1..n : FileIds[k] = f,
                                   absent, duplicate)],
                    updates |-> [k \in 1..n |->
                        Change(FileIds[k], <<96 + k>>, <<>>, old[k], new[k],
                               FALSE, FALSE)]]
    /\ uout = <<>>
    /\ NotUnitIdle

\* adjust_updates(updates): it returns the new updates, or its inner loop
\* never ends
AdjustUpdates ==
    /\ upc = "call"
    /\ LET r == adjust_updates(uin.files, uin.updates)
       IN  /\ upc' = IF r.ok THEN "adjusted" ELSE "hung"
           /\ uout' = r
    /\ UNCHANGED uin
    /\ UNCHANGED notUnit

AdjustUpdatesNext == AdjustUpdates

SpecAdjustUpdates == AdjustUpdatesInit /\ [][AdjustUpdatesNext]_vars

\* C28 (as stated): adjust_updates terminates for every update list, also
\* when oldrev and newrev differ in their first component, when
\* rcs_number_decrement reports that there is no previous number, and when
\* patches between the two revisions are missing
C28_AdjustUpdatesReturns == upc # "hung"

\* whether the walk back from newrev never comes to a revision that
\* compares <= oldrev: the update goes forward to a higher first component
WalksPastOldrev(u) ==
    /\ rcs_number_compare(u.oldrev, u.newrev) <= 0
    /\ u.oldrev[1] < u.newrev[1]

\* what the code does: adjust_updates returns unless an update goes
\* forward to a revision of a higher first component; absent patches and
\* duplicate revisions are passed over
C28_ReturnsUnlessFirstComponentRises ==
    upc # "call" =>
        (upc = "hung" <=>
            \E k \in 1..Len(uin.updates) : WalksPastOldrev(uin.updates[k]))

\* the failing call: the update 1.MaxRevs -> 2.1
C28_HungFromNextMajor ==
    /\ upc = "hung"
    /\ Len(uin.updates) = 1
    /\ uin.updates[1].oldrev = <<1, MaxRevs>>
    /\ uin.updates[1].newrev = <<2, 1>>

\* a call that returns: 1.1 -> 1.2.1.2 with the patch of 1.2 absent and
\* 1.2.1.1 a duplicate revision yields no new update
C28_ReturnsOverMissing ==
    /\ upc = "adjusted"
    /\ Len(uin.updates) = 1
    /\ uin.updates[1].oldrev = <<1, 1>>
    /\ uin.updates[1].newrev = <<1, 2, 1, 2>>
    /\ rcs_file_find_patch(uin.files["f1"], <<1, 2>>) = NoPatch
    /\ uout.upd = <<>>

(***************************************************************************)
(* Specification SpecMerge: get_commit_list of src/export.c, that is       *)
(* changeset_build and merge_changeset_into_commits, between two manifests *)
(* of up to MaxMergeFiles files.  A file is added, deleted, updated from   *)
(* 1.1 to 1.3, reverted from 1.2 to 1.1 or spelled in upper case; it is a  *)
(* dummy file, or its revisions have one author and the patch of its       *)
(* revision 1.1 is missing or not.                                         *)
(***************************************************************************)
ChangeRoles == {"add", "delete", "update", "revert", "rename"}

ChangeKinds(k) ==
    IF k <= 2
    THEN [role : ChangeRoles, dummy : {FALSE}, author : {<<97>>, <<98>>},
          missing : BOOLEAN]
             \cup [role : {"add", "delete"}, dummy : {TRUE},
                   author : {<<>>}, missing : {FALSE}]
    ELSE [role : ChangeRoles \ {"rename"}, dummy : {FALSE},
          author : {<<97>>}, missing : {FALSE}]
             \cup [role : {"add"}, dummy : {TRUE}, author : {<<>>},
                   missing : {FALSE}]

ChangeFile(kind, k) ==
    [name |-> <<96 + k>>, dummy |-> kind.dummy, binary |-> kind.dummy,
     head |-> <<1, 3>>,
     versions |-> IF kind.dummy THEN <<>>
                  ELSE [j \in 1..3 |->
                          Version(<<1, 4 - j>>,
                              IF j = 3 THEN <<>> ELSE <<1, 3 - j>>, <<>>,
                              10 * (4 - j), kind.author)],
     patches |-> IF kind.dummy THEN <<>>
                 ELSE [j \in 1..3 |->
                         [number |-> <<1, 4 - j>>,
                          log |-> IF kind.missing /\ j = 3 THEN NoLog
                                  ELSE "l",
                          missing |-> kind.missing /\ j = 3]],
     has_member_type_other |-> kind.dummy, in_projdir |-> kind.dummy,
     other_blob_mark |-> IF kind.dummy THEN 1 ELSE 0]

\* the entry of file k in the old (new = FALSE) or the new manifest, <<>>
\* if it is not listed
ChangeFrev(kind, k, new) ==
    LET rev == IF kind.role = "update" THEN (IF new THEN 3 ELSE 1)
               ELSE IF kind.role = "revert" THEN (IF new THEN 1 ELSE 2)
               ELSE 1
        name == <<(IF new /\ kind.role = "rename" THEN 64 ELSE 96) + k>>
    IN  IF (new /\ kind.role = "delete") \/ (~new /\ kind.role = "add")
        THEN <<>>
        ELSE <<Frev(FileIds[k], <<1, rev>>, name, kind.dummy)>>

RECURSIVE ChangeManifest(_, _, _)
ChangeManifest(kinds, k, new) ==
    IF k > Len(kinds) THEN <<>>
    ELSE ChangeFrev(kinds[k], k, new) \o ChangeManifest(kinds, k + 1, new)

MergeInit ==
    /\ upc = "call"
    /\ \E n \in 1..MaxMergeFiles :
          \E kinds \in [1..n -> UNION {ChangeKinds(k) : k \in 1..n}] :
             /\ \A k \in 1..n : kinds[k] \in ChangeKinds(k)
             /\ uin = [files |-> [f \in {FileIds[k] : k \in 1..n} |->
                          LET k == CHOOSE k \in 1..n : FileIds[k] = f
                          IN  ChangeFile(kinds[k], k)],
                       old |-> ChangeManifest(kinds, 1, FALSE),
                       new |-> ChangeManifest(kinds, 1, TRUE)]
    /\ uout = <<>>
    /\ NotUnitIdle

\* get_commit_list for the manifests, of the dates 5 and 40; the project
\* revision is of author "p"
GetCommitList ==
    /\ upc = "call"
    /\ upc' = "merged"
    /\ LET changes == changeset_build(uin.files, uin.old, 5, uin.new, 40,
                                      exporting_tip, 40)
       IN  uout' = [changes |-> changes,
                    commits |-> merge_changeset_into_commits(uin.files,
                                    changes, 40, <<112>>)]
    /\ UNCHANGED uin
    /\ UNCHANGED notUnit

MergeNext == GetCommitList

SpecMerge == MergeInit /\ [][MergeNext]_vars

\* how often change c is in list
CountIn(list, c) == Cardinality({i \in 1..Len(list) : list[i] = c})

\* how often change c is among the renames, adds, updates or deletes
\* (kind) of the commits
CountInCommits(kind, c) ==
    LET n[k \in 0..Len(uout.commits)] ==
            IF k = 0 THEN 0
            ELSE n[k - 1] + CountIn(uout.commits[k].changes[kind], c)
    IN  n[Len(uout.commits)]

\* the changes of a kind in the commits
ChangesInCommits(kind) ==
    UNION {{uout.commits[k].changes[kind][i] :
               i \in 1..Len(uout.commits[k].changes[kind])} :
           k \in 1..Len(uout.commits)}

TipRevnum == <<>>

\* rcs_file_find_version(project, rev, true): the branches that start at
\* the project revision and the next revision of its chain
PjVersion(pj, rev) ==
    IF Len(rev) = 2
    THEN [branches |-> IF rev[2] <= 2 /\ pj.br[rev[2]] > 0
                       THEN <<<<1, rev[2], 1, 1>>>> ELSE <<>>,
          parent |-> <<>>]
    ELSE IF Len(rev) = 4
    THEN [branches |-> IF rev = <<1, 1, 1, 1>> /\ pj.sub
                       THEN <<<<1, 1, 1, 1, 1, 1>>>> ELSE <<>>,
          parent |-> IF rev[4] < pj.br[rev[2]]
                     THEN <<1, rev[2], 1, rev[4] + 1>> ELSE <<>>]
    ELSE [branches |-> <<>>, parent |-> <<>>]

\* pjrev_find_branch_after: the first branch after prev_branch (0: from the
\* start of the list) that project revision rev belongs to, 0 if none
pjrev_find_branch_after(project_branches, rev, prev_branch) ==
    LET pjrev_short == SubSeq(rev, 1, Len(rev) - 1)
        matches ==
            {b \in 1..Len(project_branches) :
                /\ b > prev_branch
                /\ Len(rev) - 2 = Len(project_branches[b].number)
                /\ rcs_number_partial_match(rev,
                                            project_branches[b].number)
                /\ ~(/\ Len(project_branches[b].tip_number) = Len(rev)
                     /\ ~rcs_number_partial_match(
                            project_branches[b].tip_number, pjrev_short))}
    IN  IF rcs_number_is_trunk(rev)
        THEN (IF prev_branch # 0 THEN 0 ELSE 1)
        ELSE IF matches = {} THEN 0
        ELSE CHOOSE b \in matches : \A c \in matches : b <= c

\* pjrev_find_branch
pjrev_find_branch(project_branches, rev) ==
    pjrev_find_branch_after(project_branches, rev, 0)

\* a call export_project_revision_changes(branch, ..., pjrev_new); for the
\* call on a duplicate branch, new_parent is the branch its parent is set
\* to just before (0: none)
PjCall(branch, pjrev_new, new_parent) ==
    [branch |-> branch, pjrev_new |-> pjrev_new, new_parent |-> new_parent]

\* the loop over the duplicate branches of mb, from the one after mbdup
RECURSIVE duplicate_branch_calls(_, _, _, _)
duplicate_branch_calls(project_branches, number, mb, mbdup) ==
    LET next == pjrev_find_branch_after(project_branches, number, mbdup)
    IN  IF next = 0 THEN <<>>
        ELSE <<PjCall(next, TipRevnum, mb)>>
                 \o duplicate_branch_calls(project_branches, number, mb, next)

\* the last loop of export_project_branch_changes: the tips of the
\* branches that start at pjrev_start and have no RCS branch
unbranched_tip_calls(project_branches, proj_dir, pjrev_start, branches) ==
    LET mbs == SelectSeq([b \in 1..Len(project_branches) |-> b],
                   LAMBDA mb :
                      /\ mb # 1
                      /\ rcs_number_equal(project_branches[mb].number,
                                          pjrev_start)
                      /\ ~\E k \in 1..Len(branches) :
                            rcs_number_partial_match(branches[k],
                                project_branches[mb].number)
                      /\ proj_dir)
    IN  [k \in 1..Len(mbs) |-> PjCall(mbs[k], TipRevnum, 0)]

\* export_project_branch_changes: the calls of
\* export_project_revision_changes it makes, in order; branch_chain_calls
\* is its do-while loop from project revision pjrev_branch_new
RECURSIVE export_project_branch_changes(_, _, _, _, _)
RECURSIVE branch_chain_calls(_, _, _, _, _)
branch_chain_calls(pj, project_branches, proj_dir, mb, pjrev_branch_new) ==
    LET bver == PjVersion(pj, pjrev_branch_new)
    IN  <<PjCall(mb, pjrev_branch_new, 0)>>
            \o export_project_branch_changes(pj, project_branches, proj_dir,
                   pjrev_branch_new, bver.branches)
            \o (IF bver.parent = <<>> THEN <<>>
                ELSE branch_chain_calls(pj, project_branches, proj_dir, mb,
                                        bver.parent))

RECURSIVE rcs_branch_calls(_, _, _, _, _)
rcs_branch_calls(pj, project_branches, proj_dir, branches, k) ==
    IF k > Len(branches) THEN <<>>
    ELSE LET mb == pjrev_find_branch(project_branches, branches[k])
         IN  (IF mb = 0 THEN <<>>
              ELSE branch_chain_calls(pj, project_branches, proj_dir, mb,
                                      branches[k])
                       \o duplicate_branch_calls(project_branches,
                              branches[k], mb, mb)
                       \o (IF proj_dir THEN <<PjCall(mb, TipRevnum, 0)>>
                           ELSE <<>>))
                 \o rcs_branch_calls(pj, project_branches, proj_dir,
                                     branches, k + 1)

export_project_branch_changes(pj, project_branches, proj_dir, pjrev_start, branches) ==
    rcs_branch_calls(pj, project_branches, proj_dir, branches, 1)
        \o unbranched_tip_calls(project_branches, proj_dir, pjrev_start,
                                branches)

\* export_project_changes: the calls for the trunk revisions from 1.i on
\* and for the tip of the trunk
RECURSIVE export_project_changes(_, _, _, _)
export_project_changes(pj, project_branches, proj_dir, i) ==
    IF i > pj.trunk
    THEN (IF proj_dir THEN <<PjCall(1, TipRevnum, 0)>> ELSE <<>>)
    ELSE <<PjCall(1, <<1, i>>, 0)>>
             \o export_project_branch_changes(pj, project_branches, proj_dir,
                    <<1, i>>, PjVersion(pj, <<1, i>>).branches)
             \o export_project_changes(pj, project_branches, proj_dir, i + 1)

\* mutant: commits are exported to a branch that was not created
export_project_revision_changes_uncreated(project_branches, st, branch, pjrev_new, commits) ==
    [st EXCEPT
        !.out = @ \o <<[type |-> "progress", branch |-> branch,
                        rev |-> pjrev_new]>>
                  \o (IF commits THEN <<[type |-> "commit",
                                         branch |-> branch]>> ELSE <<>>),
        !.parent = [b \in 1..Len(project_branches) |->
                      IF /\ pjrev_new # TipRevnum
                         /\ rcs_number_equal(project_branches[b].number,
                                             pjrev_new)
                         /\ b # 1
                      THEN branch ELSE @[b]]]

\* export_project_revision_changes on the state st of the branches
\* (created, parent: 0 for none) and of the output; commits says whether
\* get_commit_list has commits for the project revision
export_project_revision_changes(project_branches, st, branch, pjrev_new, commits) ==
    IF ~st.created[branch] /\ st.parent[branch] = 0
    THEN [st EXCEPT !.fatal = TRUE]
    ELSE [st EXCEPT
            !.created[branch] = TRUE,
            !.out = @ \o (IF st.created[branch] THEN <<>>
                          ELSE <<[type |-> "reset", branch |-> branch,
                                  from |-> st.parent[branch]]>>)
                      \o <<[type |-> "progress", branch |-> branch,
                            rev |-> pjrev_new]>>
                      \o (IF commits THEN <<[type |-> "commit",
                                             branch |-> branch]>> ELSE <<>>),
            !.parent = [b \in 1..Len(project_branches) |->
                          IF /\ pjrev_new # TipRevnum
                             /\ rcs_number_equal(project_branches[b].number,
                                                 pjrev_new)
                             /\ b # 1
                          THEN branch ELSE @[b]]]

(***************************************************************************)
(* Specification SpecBranchExport: the driver runs over a project of up to *)
(* MaxPjTrunk trunk revisions with branches of up to MaxPjBranch           *)
(* revisions and up to MaxVariants variant branches, which start at 1.1,   *)
(* at 1.2 or at 1.1.1.1, several at one revision too, and have no tip      *)
(* number or the tip number 1.1.2.1.  The option --trunk-branch is not     *)
(* given.  One step is one call of export_project_revision_changes.        *)
(***************************************************************************)
MaxPjTrunk == 2
MaxPjBranch == 2
MaxVariants == 2

PjProjects ==
    {pj \in [trunk : 1..MaxPjTrunk, br : [1..2 -> 0..MaxPjBranch],
             sub : BOOLEAN] :
        /\ pj.trunk < 2 => pj.br[2] = 0
        /\ pj.sub => pj.br[1] > 0}

MasterBranch == [number |-> <<>>, tip_number |-> <<>>]

VariantBranches ==
    [number : {<<1, 1>>, <<1, 2>>, <<1, 1, 1, 1>>},
     tip_number : {<<>>, <<1, 1, 2, 1>>}]

BranchExportInit ==
    /\ upc = "export"
    /\ \E pj \in PjProjects, variants \in SeqsOf(VariantBranches, 0, MaxVariants),
          proj_dir \in BOOLEAN, commits \in BOOLEAN :
          LET project_branches == <<MasterBranch>> \o variants
          IN  uin = [pj |-> pj, project_branches |-> project_branches,
                     proj_dir |-> proj_dir, commits |-> commits,
                     calls |-> export_project_changes(pj, project_branches,
                                                      proj_dir, 1)]
    /\ uout = [next |-> 1,
               created |-> [b \in 1..Len(uin.project_branches) |-> b = 1],
               parent |-> [b \in 1..Len(uin.project_branches) |-> 0],
               out |-> <<>>, fatal |-> FALSE]
    /\ NotUnitIdle

\* the next call of export_project_revision_changes, with the parent of a
\* duplicate branch set just before it
ExportProjectRevisionChanges ==
    /\ upc = "export"
    /\ uout.next <= Len(uin.calls)
    /\ LET call == uin.calls[uout.next]
           st == IF call.new_parent = 0 THEN uout
                 ELSE [uout EXCEPT !.parent[call.branch] = call.new_parent]
           r == export_project_revision_changes(uin.project_branches, st,
                    call.branch, call.pjrev_new, uin.commits)
       IN  /\ uout' = [r EXCEPT !.next = @ + 1]
           /\ upc' = IF r.fatal THEN "fatal" ELSE "export"
    /\ UNCHANGED uin
    /\ UNCHANGED notUnit

\* export_project_changes returns
ExportProjectChangesDone ==
    /\ upc = "export"
    /\ uout.next > Len(uin.calls)
    /\ upc' = "done"
    /\ UNCHANGED <<uin, uout>>
    /\ UNCHANGED notUnit

BranchExportNext == ExportProjectRevisionChanges \/ ExportProjectChangesDone

SpecBranchExport == BranchExportInit /\ [][BranchExportNext]_vars

\* the indices of the output where the branchpoint of branch b is
ResetsOf(b) ==
    {i \in 1..Len(uout.out) :
        uout.out[i].type = "reset" /\ uout.out[i].branch = b}

\* the branchpoint at index i is after the export of the project revision
\* at which its branch starts, and goes from the branch that revision was
\* exported to or from a branch created before that starts at the same
\* revision
BranchpointAfterStart(i) ==
    LET e == uout.out[i]
        number == uin.project_branches[e.branch].number
    IN  \E j \in 1..(i - 1) :
           /\ uout.out[j].type = "progress"
           /\ uout.out[j].rev = number
           /\ \/ e.from = uout.out[j].branch
              \/ /\ uin.project_branches[e.from].number = number
                 /\ ResetsOf(e.from) # {}
                 /\ \A k \in ResetsOf(e.from) : j < k /\ k < i

=============================================================================
